---------------------------- MODULE Spec2Model ----------------------------
(***************************************************************************)
(* Light Room: the live-session server (src/app/server/server.js) and the  *)
(* student client (ws-client.js + app.js, src/unnamed/part_000).           *)
(*                                                                         *)
(* Strings that the code inspects character by character (names, texts,    *)
(* colors) are sequences of one-character strings; a JSON field is a       *)
(* record [str, chars] so that a non-string value can be told apart.       *)
(* Strings that the code only compares (message types, modes, reaction     *)
(* symbols, the host key) are TLA+ strings.                                *)
(***************************************************************************)
EXTENDS Integers, Sequences, FiniteSets, TLC

(***************************************************************************)
(* Bounds of the model                                                     *)
(***************************************************************************)
MaxSockets == 3        \* socket ids: connections ever opened in one run
MaxConnections == 2    \* connections the server-only specifications open
MaxSteps == 5          \* events the server sees in the server-only specifications
MaxTicks == 1          \* clock advances
MaxArrivals == 3       \* color actions logged by the rate-limit specification
MaxSubmissions == 205  \* entries submitted in the history specification

(***************************************************************************)
(* Program constants                                                       *)
(***************************************************************************)
COLOR_RATE_MS == 300
HistoryCap == 200
WelcomeTail == 20
NameMaxLen == 100
TextMaxLen == 200
QuestionMaxLen == 300
HOST_KEY == "ashika"
HostName == <<"_", "_", "h", "o", "s", "t", "_", "_">>
HostColorName == <<"A", "s", "h", "i", "k", "a">>
InitialRoomColor == <<"#", "F", "F", "6", "E", "B", "4">>
ALLOWED_EMOJI == {"eyes", "bulb", "fire", "wow"}
ALLOWED_MODES == {"lobby", "color", "ambient", "photos", "text", "demo", "qa", "sendoff"}

TickMs == COLOR_RATE_MS          \* the coarse clock step
FineTickMs == COLOR_RATE_MS \div 3  \* the clock step of the rate-limit specification
StartTime == 30 * COLOR_RATE_MS  \* Date.now() is far larger than any rate window

Sockets == 1..MaxSockets
Null == <<>>                  \* null / undefined / '' : every falsy name or color

(***************************************************************************)
(* JSON string values and the sanitizers                                   *)
(***************************************************************************)
Str(chars) == [str |-> TRUE, chars |-> chars]
NonStr == [str |-> FALSE, chars |-> <<>>]

WhiteSpace == {" ", "\t", "\n", "nbsp"}      \* what String.prototype.trim strips
HexDigits == {"0", "1", "2", "3", "4", "5", "6", "7", "8", "9",
              "A", "B", "C", "D", "E", "F", "a", "b", "c", "d", "e", "f"}

RECURSIVE TrimLeft(_)
TrimLeft(s) == IF s # <<>> /\ Head(s) \in WhiteSpace THEN TrimLeft(Tail(s)) ELSE s

RECURSIVE TrimRight(_)
TrimRight(s) ==
    IF s # <<>> /\ s[Len(s)] \in WhiteSpace THEN TrimRight(SubSeq(s, 1, Len(s) - 1)) ELSE s

Trim(s) == TrimRight(TrimLeft(s))

Slice(s, n) == SubSeq(s, 1, IF Len(s) < n THEN Len(s) ELSE n)

StripMarkup(s) == SelectSeq(s, LAMBDA c : c \notin {"<", ">"})

UpperChar(c) ==
    CASE c = "a" -> "A" [] c = "b" -> "B" [] c = "c" -> "C" [] c = "d" -> "D"
      [] c = "e" -> "E" [] c = "f" -> "F" [] c = "n" -> "N" [] c = "o" -> "O"
      [] c = "r" -> "R" [] c = "h" -> "H" [] c = "i" -> "I"
      [] OTHER -> c

ToUpperCase(s) == [i \in 1..Len(s) |-> UpperChar(s[i])]

\* sanitize(str, maxLen): '' for a non-string, else trim, slice, strip < and >
sanitize(v, maxLen) ==
    IF ~v.str THEN Null ELSE StripMarkup(Slice(Trim(v.chars), maxLen))

\* variant: any non-empty trimmed string passes
sanitizeHexLoose(v) ==
    IF ~v.str THEN Null
    ELSE LET t == Trim(v.chars) IN
         IF Len(t) > 0 THEN ToUpperCase(t) ELSE Null

\* sanitizeHex(str): null unless the trimmed string is # and six hex digits
sanitizeHex(v) ==
    IF ~v.str THEN Null
    ELSE LET t == Trim(v.chars) IN
         IF Len(t) = 7 /\ t[1] = "#" /\ \A i \in 2..7 : t[i] \in HexDigits
         THEN ToUpperCase(t) ELSE Null

sanitizeEmoji(e) == IF e \in ALLOWED_EMOJI THEN e ELSE "null"

sanitizeMode(m) == IF m \in ALLOWED_MODES THEN m ELSE "null"

(***************************************************************************)
(* State                                                                   *)
(***************************************************************************)
VARIABLES
    \* the server (server.js)
    clients,            \* appState.clients: Map in insertion order, as a sequence
    ready,              \* readyState of each server-side socket
    mode,               \* appState.mode
    roomColorHex,       \* appState.roomColorHex
    totalColorChanges,  \* appState.totalColorChanges
    textResponses,      \* appState.textResponses
    questions,          \* appState.questions
    wiz,                \* colors handed to sendToWiz, in order
    s2c,                \* per socket: what the server wrote to it and the peer has not read
    now,                \* Date.now()
    \* observation of the server
    step,               \* number of events the server has handled
    last,               \* socket and message of the last handler run that had an effect
    arrivals,           \* log of the color actions seen (rate-limit specification only)
    serial,             \* number of send() calls so far (queue specification only)
    \* one browser client (ws-client.js, app.js)
    cws,                \* #ws: the socket the transport refers to, 0 for null
    cready,             \* readyState of each WebSocket the client has created
    connected,          \* #connected
    reconnectDelay,     \* #reconnectDelay
    timer,              \* a reconnect timer is pending
    queue,              \* #queue
    joined,             \* state.joined
    cname,              \* state.name
    c2s,                \* per socket: what the client wrote and the server has not read
    croom,              \* state.roomColorHex
    ctotal,             \* state.totalColorChanges
    lastSentHex,        \* state.lastSentHex
    cmode,              \* state.mode
    pendingMode,        \* state._pendingMode
    switchTimers,       \* modes of the pending delayed switchMode calls
    clearTimers,        \* number of pending timers that clear the dedup sets
    textFeed,           \* the items of #text-feed
    qaFeed,             \* the items of #qa-feed
    selfSentTexts,      \* _selfSentTexts
    selfSentQAs,        \* _selfSentQAs
    lastColorTapAt,     \* lastColorTapAt
    lastTextSentAt,     \* lastTextSentAt
    lastQuestionSentAt, \* lastQuestionSentAt
    \* observation of the client
    joinsSent,          \* per socket: number of join messages written to it
    retries,            \* delays of the retries scheduled since the last open
    \* the facilitator's dashboard (host.js)
    hws,                \* the socket of the dashboard's connection, 0 for none
    hquestions,         \* state.questions
    htextResponses,     \* state.textResponses
    hstudents           \* the keys of state.students

srvVars == <<clients, mode, roomColorHex, totalColorChanges, textResponses,
             questions, wiz, s2c, step>>
coreVars == <<clients, ready, mode, roomColorHex, totalColorChanges, textResponses,
              questions, wiz, s2c, now, step, last>>
appVars == <<croom, ctotal, lastSentHex, cmode, pendingMode, switchTimers, clearTimers,
             textFeed, qaFeed, selfSentTexts, selfSentQAs, lastColorTapAt,
             lastTextSentAt, lastQuestionSentAt>>
cliVars == <<cws, cready, connected, reconnectDelay, timer, queue, joined, cname,
             c2s, joinsSent, retries, appVars>>
obsVars == <<arrivals, serial>>
dashVars == <<hws, hquestions, htextResponses, hstudents>>
auxVars == <<obsVars, cliVars, dashVars>>
vars == <<coreVars, auxVars>>

BlankClient(s) ==
    [sock |-> s, name |-> Null, hex |-> Null, isHost |-> FALSE,
     colorsSent |-> 0, lastColorAt |-> 0]

Has(s) == \E i \in 1..Len(clients) : clients[i].sock = s
Idx(s) == CHOOSE i \in 1..Len(clients) : clients[i].sock = s
Get(s) == clients[Idx(s)]
Put(s, r) == [clients EXCEPT ![Idx(s)] = r]
Without(s) == SelectSeq(clients, LAMBDA c : c.sock # s)

\* variant: the host is counted like a student
IsNamed(c) == c.name # Null

\* variant: an entry without a name counts as a student
IsNotHost(c) == ~c.isHost

IsStudent(c) == c.name # Null /\ ~c.isHost

\* studentCount(): entries with a name that are not the host
StudentCountOf(cl) == Cardinality({i \in 1..Len(cl) : IsStudent(cl[i])})
studentCount == StudentCountOf(clients)

\* the students array of the welcome payload
RosterOf(cl) ==
    LET st == SelectSeq(cl, IsStudent)
    IN  [i \in 1..Len(st) |->
            [name |-> st[i].name, hex |-> st[i].hex, colorsSent |-> st[i].colorsSent]]

LastN(seq, n) == IF Len(seq) <= n THEN seq ELSE SubSeq(seq, Len(seq) - n + 1, Len(seq))

\* socket.send(msg) on one socket
SendTo(box, s, msg) == [box EXCEPT ![s] = Append(@, msg)]

\* variant: the message overtakes what is already queued on the socket
BroadcastOverPrepend(box, cl, msg, excludeSocket) ==
    [s \in Sockets |->
        IF /\ \E i \in 1..Len(cl) : cl[i].sock = s
           /\ s # excludeSocket
           /\ ready[s] = "OPEN"
        THEN <<msg>> \o box[s] ELSE box[s]]

\* broadcast(msg, excludeSocket) over the entries of cl; 0 excludes nobody
BroadcastOver(box, cl, msg, excludeSocket) ==
    [s \in Sockets |->
        IF /\ \E i \in 1..Len(cl) : cl[i].sock = s
           /\ s # excludeSocket
           /\ ready[s] = "OPEN"
        THEN Append(box[s], msg) ELSE box[s]]

broadcast(box, msg, excludeSocket) == BroadcastOver(box, clients, msg, excludeSocket)


(***************************************************************************)
(* Server: connection accept and close                                     *)
(***************************************************************************)
Stamp == step + 1      \* position of the running handler among the events handled

Welcome(cl) ==
    [type |-> "welcome", mode |-> mode, count |-> Len(cl),
     totalColorChanges |-> totalColorChanges, roomColor |-> roomColorHex,
     textResponses |-> LastN(textResponses, WelcomeTail),
     questions |-> LastN(questions, WelcomeTail),
     students |-> RosterOf(cl), seq |-> Stamp]

\* wss.on('connection'): register a blank record, send the welcome payload
OnConnection(s) ==
    /\ ready[s] = "NEW"
    /\ LET cl == Append(clients, BlankClient(s)) IN
        /\ clients' = cl
        /\ s2c' = SendTo(s2c, s, Welcome(cl))
    /\ ready' = [ready EXCEPT ![s] = "OPEN"]
    /\ step' = step + 1
    /\ last' = [sock |-> s, msg |-> [type |-> "connection"]]
    /\ UNCHANGED <<mode, roomColorHex, totalColorChanges, textResponses, questions,
                   wiz, now>>

\* the socket leaves OPEN before its close event is dispatched
SocketClosing(s) ==
    /\ ready[s] = "OPEN"
    /\ ready' = [ready EXCEPT ![s] = "CLOSING"]
    /\ step' = step + 1
    /\ last' = [sock |-> s, msg |-> [type |-> "closing"]]
    /\ UNCHANGED <<clients, mode, roomColorHex, totalColorChanges, textResponses,
                   questions, wiz, s2c, now>>

Leave(name, cl) == [type |-> "leave", name |-> name, count |-> StudentCountOf(cl), seq |-> Stamp]

\* variant: the leave event counts the students before the record is deleted
OnCloseCountBefore(s) ==
    /\ ready[s] \in {"OPEN", "CLOSING"}
    /\ Has(s)
    /\ LET client == Get(s)
           cl == Without(s) IN
        /\ clients' = cl
        /\ s2c' = BroadcastOver(s2c, cl, Leave(client.name, clients), 0)
    /\ ready' = [ready EXCEPT ![s] = "CLOSED"]
    /\ step' = step + 1
    /\ last' = [sock |-> s, msg |-> [type |-> "close"]]
    /\ UNCHANGED <<mode, roomColorHex, totalColorChanges, textResponses, questions,
                   wiz, now>>

\* socket.on('close'): delete the record, broadcast leave to the remaining clients
OnClose(s) ==
    /\ ready[s] \in {"OPEN", "CLOSING"}
    /\ Has(s)
    /\ LET client == Get(s)
           cl == Without(s) IN
        /\ clients' = cl
        /\ s2c' = BroadcastOver(s2c, cl, Leave(client.name, cl), 0)
    /\ ready' = [ready EXCEPT ![s] = "CLOSED"]
    /\ step' = step + 1
    /\ last' = [sock |-> s, msg |-> [type |-> "close"]]
    /\ UNCHANGED <<mode, roomColorHex, totalColorChanges, textResponses, questions,
                   wiz, now>>

(***************************************************************************)
(* Server: handleMessage, one operator per case of the switch.  XOk is the *)
(* conjunction of the guards the case passes before it mutates anything.   *)
(***************************************************************************)
JoinOk(s, msg) ==
    /\ sanitize(msg.name, NameMaxLen) # Null
    /\ sanitizeHex(msg.hex) # Null

HandleJoin(s, msg) ==
    LET name == sanitize(msg.name, NameMaxLen)
        hex == sanitizeHex(msg.hex)
        cl == Put(s, [Get(s) EXCEPT !.name = name, !.hex = hex])
        ack == [type |-> "joined", count |-> StudentCountOf(cl), seq |-> Stamp]
        ev == [type |-> "join", name |-> name, hex |-> hex,
               count |-> StudentCountOf(cl), seq |-> Stamp]
    IN  /\ clients' = cl
        /\ s2c' = BroadcastOver(SendTo(s2c, s, ack), cl, ev, 0)
        /\ step' = step + 1
        /\ UNCHANGED <<mode, roomColorHex, totalColorChanges, textResponses,
                       questions, wiz>>

\* variant: an action exactly one window after the last one is dropped too
RateLimitedInclusive(client) == now - client.lastColorAt <= COLOR_RATE_MS

\* the rate limit: now - client.lastColorAt < COLOR_RATE_MS drops the action
RateLimited(client) == now - client.lastColorAt < COLOR_RATE_MS

ColorOk(s, msg) ==
    /\ Get(s).name # Null
    /\ sanitizeHex(msg.hex) # Null
    /\ ~RateLimited(Get(s))

ColorEvent(name, hex, total) ==
    [type |-> "color", name |-> name, hex |-> hex, seq |-> Stamp, tcc |-> total]

\* variant: the sender's colorsSent is not counted
HandleColorNoCount(s, msg) ==
    LET client == Get(s)
        hex == sanitizeHex(msg.hex)
    IN  /\ clients' = Put(s, [client EXCEPT !.lastColorAt = now, !.hex = hex])
        /\ totalColorChanges' = totalColorChanges + 1
        /\ roomColorHex' = hex
        /\ wiz' = Append(wiz, hex)
        /\ s2c' = broadcast(s2c, ColorEvent(client.name, hex, totalColorChanges + 1), s)
        /\ step' = step + 1
        /\ UNCHANGED <<mode, textResponses, questions>>

\* variant: the shared color is not updated
HandleColorKeepRoom(s, msg) ==
    LET client == Get(s)
        hex == sanitizeHex(msg.hex)
    IN  /\ clients' = Put(s, [client EXCEPT !.lastColorAt = now, !.hex = hex,
                                            !.colorsSent = @ + 1])
        /\ totalColorChanges' = totalColorChanges + 1
        /\ wiz' = Append(wiz, hex)
        /\ s2c' = broadcast(s2c, ColorEvent(client.name, hex, totalColorChanges + 1), s)
        /\ step' = step + 1
        /\ UNCHANGED <<roomColorHex, mode, textResponses, questions>>

HandleColor(s, msg) ==
    LET client == Get(s)
        hex == sanitizeHex(msg.hex)
    IN  /\ clients' = Put(s, [client EXCEPT !.lastColorAt = now, !.hex = hex,
                                            !.colorsSent = @ + 1])
        /\ totalColorChanges' = totalColorChanges + 1
        /\ roomColorHex' = hex
        /\ wiz' = Append(wiz, hex)
        /\ s2c' = broadcast(s2c, ColorEvent(client.name, hex, totalColorChanges + 1), s)
        /\ step' = step + 1
        /\ UNCHANGED <<mode, textResponses, questions>>

ReactionOk(s, msg) ==
    /\ Get(s).name # Null
    /\ sanitizeEmoji(msg.emoji) # "null"

\* variant: the sender is not excluded from the broadcast
HandleReactionEcho(s, msg) ==
    LET ev == [type |-> "reaction", name |-> Get(s).name,
               emoji |-> sanitizeEmoji(msg.emoji), seq |-> Stamp]
    IN  /\ s2c' = broadcast(s2c, ev, 0)
        /\ step' = step + 1
        /\ UNCHANGED <<clients, mode, roomColorHex, totalColorChanges, textResponses,
                       questions, wiz>>

HandleReaction(s, msg) ==
    LET ev == [type |-> "reaction", name |-> Get(s).name,
               emoji |-> sanitizeEmoji(msg.emoji), seq |-> Stamp]
    IN  /\ s2c' = broadcast(s2c, ev, s)
        /\ step' = step + 1
        /\ UNCHANGED <<clients, mode, roomColorHex, totalColorChanges, textResponses,
                       questions, wiz>>

\* variant: on overflow the newest entry is dropped instead of the oldest
PushCappedNewest(list, entry) ==
    LET pushed == Append(list, entry)
    IN  IF Len(pushed) > HistoryCap THEN SubSeq(pushed, 1, HistoryCap) ELSE pushed

\* push, then shift when the length exceeds the cap
PushCapped(list, entry) ==
    LET pushed == Append(list, entry)
    IN  IF Len(pushed) > HistoryCap THEN Tail(pushed) ELSE pushed

\* variant: an answer is stored whoever sends it
TextOkAnyone(s, msg) == sanitize(msg.text, TextMaxLen) # Null

TextOk(s, msg) ==
    /\ Get(s).name # Null
    /\ sanitize(msg.text, TextMaxLen) # Null

HandleText(s, msg) ==
    LET client == Get(s)
        entry == [name |-> client.name, text |-> sanitize(msg.text, TextMaxLen),
                  hex |-> client.hex]
        ev == [type |-> "text_response", name |-> entry.name, text |-> entry.text,
               hex |-> entry.hex, seq |-> Stamp]
    IN  /\ textResponses' = PushCapped(textResponses, entry)
        /\ s2c' = broadcast(s2c, ev, 0)
        /\ step' = step + 1
        /\ UNCHANGED <<clients, mode, roomColorHex, totalColorChanges, questions, wiz>>

QuestionOk(s, msg) ==
    /\ Get(s).name # Null
    /\ sanitize(msg.text, QuestionMaxLen) # Null

HandleQuestion(s, msg) ==
    LET client == Get(s)
        entry == [name |-> client.name, text |-> sanitize(msg.text, QuestionMaxLen),
                  hex |-> client.hex]
        ev == [type |-> "question", name |-> entry.name, text |-> entry.text,
               hex |-> entry.hex, seq |-> Stamp]
    IN  /\ questions' = PushCapped(questions, entry)
        /\ s2c' = broadcast(s2c, ev, 0)
        /\ step' = step + 1
        /\ UNCHANGED <<clients, mode, roomColorHex, totalColorChanges, textResponses, wiz>>

HostJoinOk(s, msg) == msg.key = HOST_KEY

HandleHostJoin(s, msg) ==
    /\ clients' = Put(s, [Get(s) EXCEPT !.isHost = TRUE, !.name = HostName])
    /\ step' = IF Get(s).isHost /\ Get(s).name = HostName THEN step ELSE step + 1
    /\ UNCHANGED <<mode, roomColorHex, totalColorChanges, textResponses, questions,
                   wiz, s2c>>

HostColorOk(s, msg) ==
    /\ msg.key = HOST_KEY
    /\ Get(s).isHost
    /\ sanitizeHex(msg.hex) # Null

\* variant: the facilitator's color is not handed to the sink
HandleHostColorNoSink(s, msg) ==
    LET hex == sanitizeHex(msg.hex)
    IN  /\ roomColorHex' = hex
        /\ s2c' = broadcast(s2c, ColorEvent(HostColorName, hex, totalColorChanges), 0)
        /\ step' = step + 1
        /\ UNCHANGED <<clients, mode, totalColorChanges, textResponses, questions, wiz>>

HandleHostColor(s, msg) ==
    LET hex == sanitizeHex(msg.hex)
    IN  /\ roomColorHex' = hex
        /\ wiz' = Append(wiz, hex)
        /\ s2c' = broadcast(s2c, ColorEvent(HostColorName, hex, totalColorChanges), 0)
        /\ step' = step + 1
        /\ UNCHANGED <<clients, mode, totalColorChanges, textResponses, questions>>

\* variant: the key alone authorises, on any connection
ModeOkKeyOnly(s, msg) ==
    /\ msg.key = HOST_KEY
    /\ sanitizeMode(msg.mode) # "null"

ModeOk(s, msg) ==
    /\ msg.key = HOST_KEY
    /\ Get(s).isHost
    /\ sanitizeMode(msg.mode) # "null"

\* variant: the celebratory trigger follows every mode change
HandleModeAlwaysDemo(s, msg) ==
    LET m == sanitizeMode(msg.mode)
        ev == [type |-> "mode", mode |-> m, seq |-> Stamp]
        demo == [type |-> "demo_start", seq |-> Stamp]
    IN  /\ mode' = m
        /\ s2c' = broadcast(broadcast(s2c, ev, 0), demo, 0)
        /\ step' = step + 1
        /\ UNCHANGED <<clients, roomColorHex, totalColorChanges, textResponses,
                       questions, wiz>>

HandleMode(s, msg) ==
    LET m == sanitizeMode(msg.mode)
        ev == [type |-> "mode", mode |-> m, seq |-> Stamp]
        demo == [type |-> "demo_start", seq |-> Stamp]
        sent == broadcast(s2c, ev, 0)
    IN  /\ mode' = m
        /\ s2c' = IF m = "demo" THEN broadcast(sent, demo, 0) ELSE sent
        /\ step' = step + 1
        /\ UNCHANGED <<clients, roomColorHex, totalColorChanges, textResponses,
                       questions, wiz>>

Accepts(s, msg) ==
    CASE msg.type = "join" -> JoinOk(s, msg)
      [] msg.type = "color" -> ColorOk(s, msg)
      [] msg.type = "reaction" -> ReactionOk(s, msg)
      [] msg.type = "text_response" -> TextOk(s, msg)
      [] msg.type = "question" -> QuestionOk(s, msg)
      [] msg.type = "host_join" -> HostJoinOk(s, msg)
      [] msg.type = "host_color" -> HostColorOk(s, msg)
      [] msg.type = "mode" -> ModeOk(s, msg)
      [] OTHER -> FALSE

\* variant: a color action dropped by the rate limit still stamps lastColorAt
handleMessageStampsDropped(s, msg) ==
    IF /\ msg.type = "color"
       /\ Get(s).name # Null
       /\ sanitizeHex(msg.hex) # Null
       /\ RateLimited(Get(s))
    THEN /\ clients' = Put(s, [Get(s) EXCEPT !.lastColorAt = now])
         /\ UNCHANGED <<mode, roomColorHex, totalColorChanges, textResponses,
                        questions, wiz, s2c, step>>
    ELSE IF ~Accepts(s, msg) THEN UNCHANGED srvVars
    ELSE CASE msg.type = "join" -> HandleJoin(s, msg)
           [] msg.type = "color" -> HandleColor(s, msg)
           [] msg.type = "reaction" -> HandleReaction(s, msg)
           [] msg.type = "text_response" -> HandleText(s, msg)
           [] msg.type = "question" -> HandleQuestion(s, msg)
           [] msg.type = "host_join" -> HandleHostJoin(s, msg)
           [] msg.type = "host_color" -> HandleHostColor(s, msg)
           [] msg.type = "mode" -> HandleMode(s, msg)

\* handleMessage(socket, msg): a failed guard returns without any effect
handleMessage(s, msg) ==
    IF ~Accepts(s, msg) THEN UNCHANGED srvVars
    ELSE CASE msg.type = "join" -> HandleJoin(s, msg)
           [] msg.type = "color" -> HandleColor(s, msg)
           [] msg.type = "reaction" -> HandleReaction(s, msg)
           [] msg.type = "text_response" -> HandleText(s, msg)
           [] msg.type = "question" -> HandleQuestion(s, msg)
           [] msg.type = "host_join" -> HandleHostJoin(s, msg)
           [] msg.type = "host_color" -> HandleHostColor(s, msg)
           [] msg.type = "mode" -> HandleMode(s, msg)

\* socket.on('message') for a message that parses
OnMessage(s, msg) ==
    /\ ready[s] = "OPEN"
    /\ Has(s)
    /\ handleMessage(s, msg)
    /\ last' = IF srvVars' = srvVars THEN last ELSE [sock |-> s, msg |-> msg]
    /\ UNCHANGED <<ready, now>>

(***************************************************************************)
(* Inputs the connections may send                                         *)
(***************************************************************************)
Ana == <<"A", "n", "a">>
Bo == <<"B", "o">>
Magenta == <<"#", "F", "F", "0", "0", "F", "F">>
Green == <<"#", "0", "0", "F", "F", "0", "0">>

LowerMagenta == <<"#", "f", "f", "0", "0", "f", "f">>
Red == <<"r", "e", "d">>
Hi == <<"h", "i">>

JoinMsg(n, h) == [type |-> "join", name |-> Str(n), hex |-> Str(h)]
ColorMsg(h) == [type |-> "color", hex |-> Str(h)]
ReactionMsg(e) == [type |-> "reaction", emoji |-> e]
TextMsg(x) == [type |-> "text_response", text |-> Str(x)]
QuestionMsg(x) == [type |-> "question", text |-> Str(x)]
HostJoinMsg(k) == [type |-> "host_join", key |-> k]
HostColorMsg(h, k) == [type |-> "host_color", hex |-> Str(h), key |-> k]
ModeMsg(m, k) == [type |-> "mode", mode |-> m, key |-> k]

\* each kind: the inputs its guards accept and one input for each guard that fails
JoinInputs == {JoinMsg(Ana, Green), JoinMsg(Ana, Red), JoinMsg(<<"<", ">">>, Green)}
ColorInputs == {ColorMsg(LowerMagenta), ColorMsg(<<" ">> \o Green), ColorMsg(Red)}
ReactionInputs == {ReactionMsg("eyes"), ReactionMsg("poop")}
TextInputs == {TextMsg(Hi), TextMsg(<<" ">>)}
QuestionInputs == {QuestionMsg(Hi), QuestionMsg(<<" ">>)}
HostJoinInputs == {HostJoinMsg(HOST_KEY), HostJoinMsg("wrong")}
HostColorInputs == {HostColorMsg(LowerMagenta, HOST_KEY), HostColorMsg(Red, HOST_KEY),
                    HostColorMsg(LowerMagenta, "wrong")}
ModeInputs == {ModeMsg("ambient", HOST_KEY), ModeMsg("demo", HOST_KEY),
               ModeMsg("bogus", HOST_KEY), ModeMsg("ambient", "wrong")}

(***************************************************************************)
(* Client: the transport PixelWSClient (ws-client.js) and the part of the  *)
(* session wiring that joins and re-joins (app.js)                         *)
(***************************************************************************)
RECONNECT_BASE_MS == 500
RECONNECT_MAX_MS == 30000
RECONNECT_MULTIPLIER == 2
QueueCap == 20
COLOR_TAP_RATE_MS == 300
CLIENT_TEXT_RATE_MS == 8000
CLIENT_QUESTION_RATE_MS == 5000
TextFeedCap == 40
QAFeedCap == 60
DefaultColorHex == <<"#", "F", "F", "6", "E", "B", "4">>     \* state.colorHex
NoMode == "none"                                             \* no _pendingMode

InitClient ==
    /\ cws = 0
    /\ cready = [s \in Sockets |-> "NONE"]
    /\ connected = FALSE
    /\ reconnectDelay = RECONNECT_BASE_MS
    /\ timer = FALSE
    /\ queue = <<>>
    /\ joined = FALSE
    /\ cname = Null
    /\ c2s = [s \in Sockets |-> <<>>]
    /\ joinsSent = [s \in Sockets |-> 0]
    /\ retries = <<>>
    /\ croom = DefaultColorHex
    /\ ctotal = 0
    /\ lastSentHex = Null
    /\ cmode = "lobby"
    /\ pendingMode = NoMode
    /\ switchTimers = {}
    /\ clearTimers = 0
    /\ textFeed = <<>>
    /\ qaFeed = <<>>
    /\ selfSentTexts = {}
    /\ selfSentQAs = {}
    /\ lastColorTapAt = 0
    /\ lastTextSentAt = 0
    /\ lastQuestionSentAt = 0

\* what fullTrim strips: whitespace and the invisible characters
FullWhiteSpace == WhiteSpace \cup {"zwsp", "bom"}

RECURSIVE FullTrimLeft(_)
FullTrimLeft(s) ==
    IF s # <<>> /\ Head(s) \in FullWhiteSpace THEN FullTrimLeft(Tail(s)) ELSE s

RECURSIVE FullTrimRight(_)
FullTrimRight(s) ==
    IF s # <<>> /\ s[Len(s)] \in FullWhiteSpace
    THEN FullTrimRight(SubSeq(s, 1, Len(s) - 1)) ELSE s

fullTrim(s) == FullTrimRight(FullTrimLeft(s))

\* \w over the characters the inputs are made of
WordChar(c) == c \notin FullWhiteSpace \cup {"<", ">", "#", "-"}

\* toTitleCase: the first character of every word is upper-cased
toTitleCase(s) ==
    [i \in 1..Len(s) |->
        IF WordChar(s[i]) /\ (i = 1 \/ ~WordChar(s[i - 1])) THEN UpperChar(s[i]) ELSE s[i]]

\* the sockets are numbered in the order in which the client creates them
NextClientSocket == 1 + Cardinality({s \in Sockets : cready[s] # "NONE"})

\* connect(): nothing if #ws is open or connecting, else a new WebSocket
connect ==
    IF cws # 0 /\ cready[cws] \in {"OPEN", "CONNECTING"}
    THEN UNCHANGED <<cws, cready>>
    ELSE /\ NextClientSocket \in Sockets
         /\ cws' = NextClientSocket
         /\ cready' = [cready EXCEPT ![NextClientSocket] = "CONNECTING"]

\* variant: a full queue still takes one more message
sendOverCap(msg) ==
    IF connected /\ cws # 0 /\ cready[cws] = "OPEN"
    THEN /\ c2s' = [c2s EXCEPT ![cws] = Append(@, msg)]
         /\ joinsSent' = IF msg.type = "join"
                         THEN [joinsSent EXCEPT ![cws] = @ + 1] ELSE joinsSent
         /\ UNCHANGED queue
    ELSE /\ queue' = IF Len(queue) <= QueueCap THEN Append(queue, msg) ELSE queue
         /\ UNCHANGED <<c2s, joinsSent>>

\* send(payload): write to #ws if connected and open, else queue below the cap
send(msg) ==
    IF connected /\ cws # 0 /\ cready[cws] = "OPEN"
    THEN /\ c2s' = [c2s EXCEPT ![cws] = Append(@, msg)]
         /\ joinsSent' = IF msg.type = "join"
                         THEN [joinsSent EXCEPT ![cws] = @ + 1] ELSE joinsSent
         /\ UNCHANGED queue
    ELSE /\ queue' = IF Len(queue) < QueueCap THEN Append(queue, msg) ELSE queue
         /\ UNCHANGED <<c2s, joinsSent>>

\* boot(): ws.connect()
Boot ==
    /\ \A s \in Sockets : cready[s] = "NONE"
    /\ connect
    /\ UNCHANGED <<connected, reconnectDelay, timer, queue, joined, cname, c2s, joinsSent,
                   retries, appVars>>

\* visibilitychange to visible: connect() unless ws.connected
VisibilityChange ==
    /\ cready[1] # "NONE"
    /\ ~connected
    /\ connect
    /\ UNCHANGED <<connected, reconnectDelay, timer, queue, joined, cname, c2s, joinsSent,
                   retries, appVars>>

\* the callback of #scheduleReconnect: connect(), then the backoff
TimerFire ==
    /\ timer
    /\ connect
    /\ reconnectDelay' = IF reconnectDelay * RECONNECT_MULTIPLIER < RECONNECT_MAX_MS
                         THEN reconnectDelay * RECONNECT_MULTIPLIER
                         ELSE RECONNECT_MAX_MS
    /\ timer' = FALSE
    /\ UNCHANGED <<connected, queue, joined, cname, c2s, joinsSent, retries, appVars>>

\* variant: the queue is flushed as it is, nothing is filtered
OpenHandlerNoFilter(k, heard) ==
    /\ cready[k] = "CONNECTING"
    /\ ready[k] # "NEW"
    /\ cready' = [cready EXCEPT ![k] = "OPEN"]
    /\ connected' = TRUE
    /\ reconnectDelay' = RECONNECT_BASE_MS
    /\ LET room == QueueCap - Len(queue)
       IN  IF cws # 0 /\ cready'[cws] = "OPEN"
           THEN /\ c2s' = [c2s EXCEPT ![cws] = @ \o heard \o queue]
                /\ joinsSent' = [joinsSent EXCEPT ![cws] =
                                    @ + Len(SelectSeq(heard \o queue,
                                                      LAMBDA m : m.type = "join"))]
                /\ queue' = <<>>
           ELSE /\ queue' = queue \o SubSeq(heard, 1, IF Len(heard) < room
                                                      THEN Len(heard) ELSE room)
                /\ UNCHANGED <<c2s, joinsSent>>
    /\ retries' = <<>>
    /\ UNCHANGED <<cws, timer, joined, cname, appVars>>

\* variant: the flush writes the queue and leaves it in place
OpenHandlerKeepQueue(k, heard) ==
    /\ cready[k] = "CONNECTING"
    /\ ready[k] # "NEW"
    /\ cready' = [cready EXCEPT ![k] = "OPEN"]
    /\ connected' = TRUE
    /\ reconnectDelay' = RECONNECT_BASE_MS
    /\ LET kept == SelectSeq(queue, LAMBDA m : m.type \notin {"color", "join"})
           room == QueueCap - Len(kept)
       IN  IF cws # 0 /\ cready'[cws] = "OPEN"
           THEN /\ c2s' = [c2s EXCEPT ![cws] = @ \o heard \o kept]
                /\ joinsSent' = [joinsSent EXCEPT ![cws] =
                                    @ + Len(SelectSeq(heard, LAMBDA m : m.type = "join"))]
                /\ queue' = kept
           ELSE /\ queue' = kept \o SubSeq(heard, 1, IF Len(heard) < room
                                                     THEN Len(heard) ELSE room)
                /\ UNCHANGED <<c2s, joinsSent>>
    /\ retries' = <<>>
    /\ UNCHANGED <<cws, timer, joined, cname, appVars>>

\* the open listener of socket k: filter the queue, emit 'connected', then
\* #flushQueue on #ws; heard is what the listeners of 'connected' pass to send()
OpenHandler(k, heard) ==
    /\ cready[k] = "CONNECTING"
    /\ ready[k] # "NEW"
    /\ cready' = [cready EXCEPT ![k] = "OPEN"]
    /\ connected' = TRUE
    /\ reconnectDelay' = RECONNECT_BASE_MS
    /\ LET kept == SelectSeq(queue, LAMBDA m : m.type \notin {"color", "join"})
           room == QueueCap - Len(kept)
       IN  IF cws # 0 /\ cready'[cws] = "OPEN"
           THEN /\ c2s' = [c2s EXCEPT ![cws] = @ \o heard \o kept]
                /\ joinsSent' = [joinsSent EXCEPT ![cws] =
                                    @ + Len(SelectSeq(heard, LAMBDA m : m.type = "join"))]
                /\ queue' = <<>>
           ELSE /\ queue' = kept \o SubSeq(heard, 1, IF Len(heard) < room
                                                     THEN Len(heard) ELSE room)
                /\ UNCHANGED <<c2s, joinsSent>>
    /\ retries' = <<>>
    /\ UNCHANGED <<cws, timer, joined, cname, appVars>>

\* the listeners app.js registers for 'connected' send nothing
ClientOpen(k) == OpenHandler(k, <<>>)

\* addTextFeedItem / addQAFeedItem: append, then drop the oldest above the cap
AddFeedItem(feed, item, cap) ==
    LET all == Append(feed, item)
    IN  IF Len(all) > cap THEN SubSeq(all, Len(all) - cap + 1, Len(all)) ELSE all

RECURSIVE AddFeedItems(_, _, _)
AddFeedItems(feed, items, cap) ==
    IF items = <<>> THEN feed
    ELSE AddFeedItems(AddFeedItem(feed, Head(items), cap), Tail(items), cap)

FeedItem(name, text, hex) == [name |-> name, text |-> text, hex |-> hex]

\* the key of the dedup sets: `${name}::${text}`
DedupKey(name, text) == name \o <<":", ":">> \o text

\* switchMode(mode): nothing for the mode already shown (except demo), else
\* the mode is taken and a timer that clears the dedup sets is started
switchMode(m) ==
    IF m = cmode /\ m # "demo"
    THEN UNCHANGED <<cmode, clearTimers>>
    ELSE /\ cmode' = m
         /\ clearTimers' = clearTimers + 1

\* variant: the histories of the welcome are added to what the feeds hold
OnWelcomeMerge(data) ==
    /\ IF ~joined /\ data.mode # "lobby"
       THEN /\ pendingMode' = data.mode
            /\ UNCHANGED <<cmode, clearTimers>>
       ELSE /\ cmode' = data.mode
            /\ clearTimers' = clearTimers + 1
            /\ UNCHANGED pendingMode
    /\ croom' = IF data.roomColor # Null THEN data.roomColor ELSE croom
    /\ ctotal' = data.totalColorChanges
    /\ textFeed' = AddFeedItems(textFeed, data.textResponses, TextFeedCap)
    /\ qaFeed' = AddFeedItems(qaFeed, data.questions, QAFeedCap)
    /\ IF joined /\ cname # Null
       THEN send(JoinMsg(cname, IF lastSentHex # Null THEN lastSentHex
                                ELSE DefaultColorHex))
       ELSE UNCHANGED <<c2s, queue, joinsSent>>
    /\ UNCHANGED <<joined, lastSentHex, switchTimers, selfSentTexts, selfSentQAs,
                   lastColorTapAt, lastTextSentAt, lastQuestionSentAt>>

\* ws.onMessage('welcome'): replace the local state; re-join if joined before
OnWelcome(data) ==
    /\ IF ~joined /\ data.mode # "lobby"
       THEN /\ pendingMode' = data.mode
            /\ UNCHANGED <<cmode, clearTimers>>
       ELSE /\ cmode' = data.mode
            /\ clearTimers' = clearTimers + 1
            /\ UNCHANGED pendingMode
    /\ croom' = IF data.roomColor # Null THEN data.roomColor ELSE croom
    /\ ctotal' = data.totalColorChanges
    /\ textFeed' = AddFeedItems(<<>>, data.textResponses, TextFeedCap)
    /\ qaFeed' = AddFeedItems(<<>>, data.questions, QAFeedCap)
    /\ IF joined /\ cname # Null
       THEN send(JoinMsg(cname, IF lastSentHex # Null THEN lastSentHex
                                ELSE DefaultColorHex))
       ELSE UNCHANGED <<c2s, queue, joinsSent>>
    /\ UNCHANGED <<joined, lastSentHex, switchTimers, selfSentTexts, selfSentQAs,
                   lastColorTapAt, lastTextSentAt, lastQuestionSentAt>>

\* ws.onMessage('joined'): joined; a late joiner is switched to the mode a little later
OnJoined(data) ==
    /\ joined' = TRUE
    /\ IF pendingMode \notin {NoMode, "lobby"}
       THEN /\ switchTimers' = switchTimers \cup {pendingMode}
            /\ pendingMode' = NoMode
       ELSE UNCHANGED <<switchTimers, pendingMode>>
    /\ UNCHANGED <<c2s, queue, joinsSent, croom, ctotal, lastSentHex, cmode, clearTimers,
                   textFeed, qaFeed, selfSentTexts, selfSentQAs, lastColorTapAt,
                   lastTextSentAt, lastQuestionSentAt>>

\* ws.onMessage('mode')
OnMode(data) ==
    /\ IF ~joined /\ data.mode # "lobby"
       THEN /\ pendingMode' = data.mode
            /\ UNCHANGED <<cmode, clearTimers>>
       ELSE /\ switchMode(data.mode)
            /\ UNCHANGED pendingMode
    /\ UNCHANGED <<c2s, queue, joinsSent, joined, croom, ctotal, lastSentHex, switchTimers,
                   textFeed, qaFeed, selfSentTexts, selfSentQAs, lastColorTapAt,
                   lastTextSentAt, lastQuestionSentAt>>

\* ws.onMessage('color'): setRoomColor(data.hex), state.totalColorChanges++
OnColor(data) ==
    /\ croom' = data.hex
    /\ ctotal' = ctotal + 1
    /\ UNCHANGED <<c2s, queue, joinsSent, joined, lastSentHex, cmode, pendingMode,
                   switchTimers, clearTimers, textFeed, qaFeed, selfSentTexts,
                   selfSentQAs, lastColorTapAt, lastTextSentAt, lastQuestionSentAt>>

\* ws.onMessage('text_response'): an echo of an own submission is consumed, not shown
OnTextResponse(data) ==
    LET key == DedupKey(data.name, data.text)
    IN  /\ IF key \in selfSentTexts
           THEN /\ selfSentTexts' = selfSentTexts \ {key}
                /\ UNCHANGED textFeed
           ELSE /\ textFeed' = AddFeedItem(textFeed,
                                           FeedItem(data.name, data.text, data.hex),
                                           TextFeedCap)
                /\ UNCHANGED selfSentTexts
        /\ UNCHANGED <<c2s, queue, joinsSent, joined, croom, ctotal, lastSentHex, cmode,
                       pendingMode, switchTimers, clearTimers, qaFeed, selfSentQAs,
                       lastColorTapAt, lastTextSentAt, lastQuestionSentAt>>

\* ws.onMessage('question')
OnQuestion(data) ==
    LET key == DedupKey(data.name, data.text)
    IN  /\ IF key \in selfSentQAs
           THEN /\ selfSentQAs' = selfSentQAs \ {key}
                /\ UNCHANGED qaFeed
           ELSE /\ qaFeed' = AddFeedItem(qaFeed,
                                         FeedItem(data.name, data.text, data.hex),
                                         QAFeedCap)
                /\ UNCHANGED selfSentQAs
        /\ UNCHANGED <<c2s, queue, joinsSent, joined, croom, ctotal, lastSentHex, cmode,
                       pendingMode, switchTimers, clearTimers, textFeed, selfSentTexts,
                       lastColorTapAt, lastTextSentAt, lastQuestionSentAt>>

\* the message listener of socket k and the handlers app.js registers
ClientMessage(k) ==
    /\ cready[k] \in {"OPEN", "CLOSING"}
    /\ s2c[k] # <<>>
    /\ s2c' = [s2c EXCEPT ![k] = Tail(@)]
    /\ LET data == Head(s2c[k]) IN
        CASE data.type = "welcome" -> OnWelcome(data)
          [] data.type = "joined" -> OnJoined(data)
          [] data.type = "mode" -> OnMode(data)
          [] data.type = "color" -> OnColor(data)
          [] data.type = "text_response" -> OnTextResponse(data)
          [] data.type = "question" -> OnQuestion(data)
          [] OTHER -> UNCHANGED <<c2s, queue, joinsSent, joined, appVars>>
    /\ UNCHANGED <<cws, cready, connected, reconnectDelay, timer, cname, retries>>

\* handleJoin(): the join form is submitted with this value
HandleJoinForm(value) ==
    /\ cready[1] # "NONE"
    /\ ~joined /\ cname = Null
    /\ LET rawName == fullTrim(value)
           name == toTitleCase(rawName)
       IN  IF rawName = <<>>
           THEN UNCHANGED <<cname, c2s, queue, joinsSent>>
           ELSE /\ cname' = name
                /\ send(JoinMsg(name, DefaultColorHex))
    /\ UNCHANGED <<cws, cready, connected, reconnectDelay, timer, joined, retries, appVars>>

\* handleColorTap(color) and handleDrawerColorTap(color): the color is sent
\* and shown at once
HandleColorTap(hex) ==
    /\ cmode \in {"color", "ambient", "photos", "text", "demo", "qa"}
    /\ IF ~joined \/ now - lastColorTapAt < COLOR_TAP_RATE_MS
       THEN UNCHANGED <<lastColorTapAt, lastSentHex, croom, ctotal, c2s, queue, joinsSent>>
       ELSE /\ lastColorTapAt' = now
            /\ send(ColorMsg(hex))
            /\ lastSentHex' = hex
            /\ ctotal' = ctotal + 1
            /\ croom' = hex
    /\ UNCHANGED <<cws, cready, connected, reconnectDelay, timer, joined, cname, retries,
                   cmode, pendingMode, switchTimers, clearTimers, textFeed, qaFeed,
                   selfSentTexts, selfSentQAs, lastTextSentAt, lastQuestionSentAt>>

\* handleTextSubmit(): the answer is shown at once and its key remembered
HandleTextSubmit(value) ==
    /\ cmode = "text"
    /\ LET text == fullTrim(value) IN
        IF text = <<>> \/ now - lastTextSentAt < CLIENT_TEXT_RATE_MS
        THEN UNCHANGED <<lastTextSentAt, selfSentTexts, textFeed, c2s, queue, joinsSent>>
        ELSE /\ lastTextSentAt' = now
             /\ selfSentTexts' = selfSentTexts \cup {DedupKey(cname, text)}
             /\ textFeed' = AddFeedItem(textFeed, FeedItem(cname, text, DefaultColorHex),
                                        TextFeedCap)
             /\ send(TextMsg(text))
    /\ UNCHANGED <<cws, cready, connected, reconnectDelay, timer, joined, cname, retries,
                   croom, ctotal, lastSentHex, cmode, pendingMode, switchTimers, clearTimers,
                   qaFeed, selfSentQAs, lastColorTapAt, lastQuestionSentAt>>

\* handleQASubmit()
HandleQASubmit(value) ==
    /\ cmode = "qa"
    /\ LET text == fullTrim(value) IN
        IF text = <<>> \/ now - lastQuestionSentAt < CLIENT_QUESTION_RATE_MS
        THEN UNCHANGED <<lastQuestionSentAt, selfSentQAs, qaFeed, c2s, queue, joinsSent>>
        ELSE /\ lastQuestionSentAt' = now
             /\ selfSentQAs' = selfSentQAs \cup {DedupKey(cname, text)}
             /\ qaFeed' = AddFeedItem(qaFeed, FeedItem(cname, text, DefaultColorHex),
                                      QAFeedCap)
             /\ send(QuestionMsg(text))
    /\ UNCHANGED <<cws, cready, connected, reconnectDelay, timer, joined, cname, retries,
                   croom, ctotal, lastSentHex, cmode, pendingMode, switchTimers, clearTimers,
                   textFeed, selfSentTexts, lastColorTapAt, lastTextSentAt>>

\* the timer switchMode starts: both dedup sets are cleared
DedupClear ==
    /\ clearTimers > 0
    /\ clearTimers' = clearTimers - 1
    /\ selfSentTexts' = {}
    /\ selfSentQAs' = {}
    /\ UNCHANGED <<cws, cready, connected, reconnectDelay, timer, queue, joined, cname,
                   c2s, joinsSent, retries, croom, ctotal, lastSentHex, cmode, pendingMode,
                   switchTimers, textFeed, qaFeed, lastColorTapAt, lastTextSentAt,
                   lastQuestionSentAt>>

\* the timer the 'joined' handler starts for a late joiner: switchMode(targetMode)
LateSwitch(m) ==
    /\ m \in switchTimers
    /\ switchTimers' = switchTimers \ {m}
    /\ switchMode(m)
    /\ UNCHANGED <<cws, cready, connected, reconnectDelay, timer, queue, joined, cname,
                   c2s, joinsSent, retries, croom, ctotal, lastSentHex, pendingMode, textFeed,
                   qaFeed, selfSentTexts, selfSentQAs, lastColorTapAt, lastTextSentAt,
                   lastQuestionSentAt>>

\* socket k starts closing: its readyState leaves OPEN before the close event
ClientClosing(k) ==
    /\ cready[k] = "OPEN"
    /\ cready' = [cready EXCEPT ![k] = "CLOSING"]
    /\ UNCHANGED <<cws, connected, reconnectDelay, timer, queue, joined, cname, c2s,
                   joinsSent, retries, appVars>>

\* the close listener of socket k: #connected = false, #ws = null, #scheduleReconnect
ClientClose(k) ==
    /\ cready[k] \in {"CONNECTING", "OPEN", "CLOSING"}
    /\ cready' = [cready EXCEPT ![k] = "CLOSED"]
    /\ connected' = FALSE
    /\ cws' = 0
    /\ timer' = TRUE
    /\ retries' = Append(retries, reconnectDelay)
    /\ UNCHANGED <<reconnectDelay, queue, joined, cname, c2s, joinsSent, appVars>>

(***************************************************************************)
(* The facilitator's dashboard (host.js): the handlers connectHost         *)
(* registers.  state.students is a Map keyed by name; its keys are kept.   *)
(***************************************************************************)
RECURSIVE NamesOf(_)
NamesOf(students) ==
    IF students = <<>> THEN {} ELSE {Head(students).name} \cup NamesOf(Tail(students))

\* addQuestion / addTextResponse: state.<list>.push({name, text, hex})
PushItem(list, data) == Append(list, [name |-> data.name, text |-> data.text, hex |-> data.hex])

RECURSIVE PushItems(_, _)
PushItems(list, items) ==
    IF items = <<>> THEN list ELSE PushItems(PushItem(list, Head(items)), Tail(items))

\* ws.onMessage('welcome'): students.set for each student, addQuestion and
\* addTextResponse for each entry of the histories
DashWelcome(data) ==
    /\ hstudents' = hstudents \cup NamesOf(data.students)
    /\ hquestions' = PushItems(hquestions, data.questions)
    /\ htextResponses' = PushItems(htextResponses, data.textResponses)

\* ws.onMessage('join')
DashJoin(data) ==
    /\ hstudents' = IF data.name # Null THEN hstudents \cup {data.name} ELSE hstudents
    /\ UNCHANGED <<hquestions, htextResponses>>

\* ws.onMessage('leave')
DashLeave(data) ==
    /\ hstudents' = IF data.name # Null /\ data.name # HostName
                    THEN hstudents \ {data.name} ELSE hstudents
    /\ UNCHANGED <<hquestions, htextResponses>>

\* ws.onMessage('question')
DashQuestion(data) ==
    /\ hquestions' = PushItem(hquestions, data)
    /\ UNCHANGED <<hstudents, htextResponses>>

\* ws.onMessage('text_response')
DashTextResponse(data) ==
    /\ htextResponses' = PushItem(htextResponses, data)
    /\ UNCHANGED <<hstudents, hquestions>>

\* the message listener of the dashboard's socket
DashMessage ==
    /\ hws # 0
    /\ s2c[hws] # <<>>
    /\ s2c' = [s2c EXCEPT ![hws] = Tail(@)]
    /\ LET data == Head(s2c[hws]) IN
        CASE data.type = "welcome" -> DashWelcome(data)
          [] data.type = "join" -> DashJoin(data)
          [] data.type = "leave" -> DashLeave(data)
          [] data.type = "question" -> DashQuestion(data)
          [] data.type = "text_response" -> DashTextResponse(data)
          [] OTHER -> UNCHANGED <<hstudents, hquestions, htextResponses>>
    /\ UNCHANGED <<clients, ready, mode, roomColorHex, totalColorChanges, textResponses,
                   questions, wiz, now, step, last, hws, obsVars, cliVars>>

(***************************************************************************)
(* Spec: the server alone, driven by connections that may send anything.   *)
(* A message whose guards fail leaves every variable as it was.            *)
(***************************************************************************)
Budget == step < MaxSteps

\* the connections of the server-only specifications open in the order of their ids
NextSocket == 1 + Cardinality({s \in Sockets : ready[s] # "NEW"})

InitServer ==
    /\ clients = <<>>
    /\ ready = [s \in Sockets |-> "NEW"]
    /\ mode = "lobby"
    /\ roomColorHex = InitialRoomColor
    /\ totalColorChanges = 0
    /\ textResponses = <<>>
    /\ questions = <<>>
    /\ wiz = <<>>
    /\ s2c = [s \in Sockets |-> <<>>]
    /\ now = StartTime
    /\ step = 0
    /\ last = [sock |-> 0, msg |-> [type |-> "none"]]

InitDash ==
    /\ hws = 0
    /\ hquestions = <<>>
    /\ htextResponses = <<>>
    /\ hstudents = {}

Init ==
    /\ InitServer
    /\ InitClient
    /\ InitDash
    /\ arrivals = <<>>
    /\ serial = 0

Tick ==
    /\ now < StartTime + MaxTicks * TickMs
    /\ now' = now + TickMs
    /\ UNCHANGED <<srvVars, ready, last, auxVars>>

Accept(s) ==
    /\ Budget
    /\ s = NextSocket
    /\ s <= MaxConnections
    /\ OnConnection(s)
    /\ UNCHANGED auxVars

Closing(s) == Budget /\ SocketClosing(s) /\ UNCHANGED auxVars

Close(s) == Budget /\ OnClose(s) /\ UNCHANGED auxVars

Recv(s, msg) == Budget /\ OnMessage(s, msg) /\ UNCHANGED auxVars

RecvJoin(s) == \E m \in JoinInputs : Recv(s, m)

RecvColor(s) == \E m \in ColorInputs : Recv(s, m)

RecvReaction(s) == \E m \in ReactionInputs : Recv(s, m)

RecvText(s) == \E m \in TextInputs : Recv(s, m)

RecvQuestion(s) == \E m \in QuestionInputs : Recv(s, m)

RecvHostJoin(s) == \E m \in HostJoinInputs : Recv(s, m)

RecvHostColor(s) == \E m \in HostColorInputs : Recv(s, m)

RecvMode(s) == \E m \in ModeInputs : Recv(s, m)

Next ==
    \/ \E s \in Sockets : Accept(s)
    \/ \E s \in Sockets : Closing(s)
    \/ \E s \in Sockets : Close(s)
    \/ \E s \in Sockets : RecvJoin(s)
    \/ \E s \in Sockets : RecvColor(s)
    \/ \E s \in Sockets : RecvReaction(s)
    \/ \E s \in Sockets : RecvText(s)
    \/ \E s \in Sockets : RecvQuestion(s)
    \/ \E s \in Sockets : RecvHostJoin(s)
    \/ \E s \in Sockets : RecvHostColor(s)
    \/ \E s \in Sockets : RecvMode(s)
    \/ Tick

Spec == Init /\ [][Next]_vars

(***************************************************************************)
(* SpecRate: the color rate limit.  Time advances in steps of a third of   *)
(* the window; every color action of a named connection is logged with its *)
(* arrival time and whether the server counted it.                         *)
(***************************************************************************)
RateTicks == 3 * (MaxTicks + 1)

RateColorInputs == {ColorMsg(LowerMagenta), ColorMsg(<<" ">> \o Green)}

RateTick ==
    /\ now < StartTime + RateTicks * FineTickMs
    /\ now' = now + FineTickMs
    /\ UNCHANGED <<srvVars, ready, last, auxVars>>

RateAccept(s) == Accept(s)

RateJoin(s) == Has(s) /\ Get(s).name = Null /\ Recv(s, JoinMsg(Ana, Green))

RateColor(s) ==
    /\ Budget
    /\ Len(arrivals) < MaxArrivals
    /\ Has(s) /\ Get(s).name # Null
    /\ \E m \in RateColorInputs : OnMessage(s, m)
    /\ arrivals' = Append(arrivals,
                          [sock |-> s, at |-> now,
                           ok |-> totalColorChanges' = totalColorChanges + 1])
    /\ UNCHANGED <<cliVars, serial, dashVars>>

NextRate ==
    \/ \E s \in Sockets : RateAccept(s)
    \/ \E s \in Sockets : RateJoin(s)
    \/ \E s \in Sockets : RateColor(s)
    \/ RateTick

SpecRate == Init /\ [][NextRate]_vars

(***************************************************************************)
(* SpecDrop: color actions the server drops.  As SpecRate, but the color   *)
(* actions come from any registered connection, joined or not, and carry   *)
(* valid and invalid values; each is logged with its arrival time, whether *)
(* its sender had joined, whether its value was valid and whether it was   *)
(* counted.                                                                *)
(***************************************************************************)
DropColorInputs == RateColorInputs \cup {ColorMsg(Red)}

DropColor(s) ==
    /\ Budget
    /\ Len(arrivals) < MaxArrivals
    /\ Has(s)
    /\ \E m \in DropColorInputs :
          /\ OnMessage(s, m)
          /\ arrivals' = Append(arrivals,
                                [sock |-> s, at |-> now,
                                 named |-> Get(s).name # Null,
                                 valid |-> sanitizeHex(m.hex) # Null,
                                 ok |-> totalColorChanges' = totalColorChanges + 1])
    /\ UNCHANGED <<cliVars, serial, dashVars>>

NextDrop ==
    \/ \E s \in Sockets : RateAccept(s)
    \/ \E s \in Sockets : RateJoin(s)
    \/ \E s \in Sockets : DropColor(s)
    \/ RateTick

SpecDrop == Init /\ [][NextDrop]_vars

(***************************************************************************)
(* SpecName: the name sanitizer.  Connections join under every string of   *)
(* up to MaxNameLen characters over a blank, the two markup characters and *)
(* a letter.                                                               *)
(***************************************************************************)
MaxNameLen == 3

NameAlphabet == {" ", "<", ">", "a"}

RECURSIVE StringsUpTo(_)
StringsUpTo(n) ==
    IF n = 0 THEN {<<>>}
    ELSE StringsUpTo(n - 1) \cup
         {Append(s, c) : s \in StringsUpTo(n - 1), c \in NameAlphabet}

NameStrings == StringsUpTo(MaxNameLen)

NameJoin(s) == \E n \in NameStrings : Recv(s, JoinMsg(n, Green))

NextName ==
    \/ \E s \in Sockets : Accept(s)
    \/ \E s \in Sockets : NameJoin(s)
    \/ \E s \in Sockets : Close(s)

SpecName == Init /\ [][NextName]_vars

(***************************************************************************)
(* SpecHist: the bounded histories.  One participant submits answers, or   *)
(* questions, until MaxSubmissions have been stored; the text of a         *)
(* submission is determined by its position, so that entries differ.       *)
(***************************************************************************)
Yo == <<"y", "o">>
Ok == <<"<", "o", "k", ">">>

TextAt(k) == CASE k % 3 = 0 -> Hi [] k % 3 = 1 -> Yo [] OTHER -> Ok

HistBudget == step < MaxSubmissions + 2

HistAccept(s) == s = 1 /\ HistBudget /\ OnConnection(s) /\ UNCHANGED auxVars

HistJoin(s) ==
    /\ HistBudget
    /\ Has(s) /\ Get(s).name = Null
    /\ OnMessage(s, JoinMsg(Ana, Green))
    /\ UNCHANGED auxVars

HistText(s) ==
    /\ HistBudget
    /\ questions = <<>>
    /\ \E x \in {TextAt(step), <<" ">>} : OnMessage(s, TextMsg(x))
    /\ UNCHANGED auxVars

HistQuestion(s) ==
    /\ HistBudget
    /\ textResponses = <<>>
    /\ \E x \in {TextAt(step + 1), <<" ">>} : OnMessage(s, QuestionMsg(x))
    /\ UNCHANGED auxVars

NextHist ==
    \/ \E s \in Sockets : HistAccept(s)
    \/ \E s \in Sockets : HistJoin(s)
    \/ \E s \in Sockets : HistText(s)
    \/ \E s \in Sockets : HistQuestion(s)

SpecHist == Init /\ [][NextHist]_vars

(***************************************************************************)
(* SpecSys: one browser client and the server.  The client creates up to   *)
(* MaxSockets sockets; every event of a socket and every message in flight *)
(* is taken in any order.                                                  *)
(***************************************************************************)
NameInputs == {<<" ", "a", "n", "a">>, <<"zwsp">>}

srvRest == <<clients, ready, mode, roomColorHex, totalColorChanges, textResponses,
             questions, wiz, now, step, last>>

SysBoot == Boot /\ UNCHANGED <<coreVars, obsVars, dashVars>>

SysVisibilityChange == VisibilityChange /\ UNCHANGED <<coreVars, obsVars, dashVars>>

SysTimerFire == TimerFire /\ UNCHANGED <<coreVars, obsVars, dashVars>>

SysClientOpen(k) == ClientOpen(k) /\ UNCHANGED <<coreVars, obsVars, dashVars>>

SysClientMessage(k) == ClientMessage(k) /\ UNCHANGED <<srvRest, obsVars, dashVars>>

SysJoinForm == \E v \in NameInputs : HandleJoinForm(v) /\ UNCHANGED <<coreVars, obsVars, dashVars>>

SysClientClosing(k) == ClientClosing(k) /\ UNCHANGED <<coreVars, obsVars, dashVars>>

SysClientClose(k) == ClientClose(k) /\ UNCHANGED <<coreVars, obsVars, dashVars>>

\* the server accepts the connection of a socket the client is opening
SysAccept(s) == cready[s] = "CONNECTING" /\ OnConnection(s) /\ UNCHANGED auxVars

\* the server reads the next message the client wrote to socket s
SysRecv(s) ==
    /\ c2s[s] # <<>>
    /\ OnMessage(s, Head(c2s[s]))
    /\ c2s' = [c2s EXCEPT ![s] = Tail(@)]
    /\ UNCHANGED <<cws, cready, connected, reconnectDelay, timer, queue, joined, cname,
                   joinsSent, retries, appVars, obsVars, dashVars>>

SysServerClose(s) == OnClose(s) /\ UNCHANGED auxVars

NextSys ==
    \/ SysBoot
    \/ SysVisibilityChange
    \/ SysTimerFire
    \/ SysJoinForm
    \/ \E k \in Sockets : SysClientOpen(k)
    \/ \E k \in Sockets : SysClientMessage(k)
    \/ \E k \in Sockets : SysClientClosing(k)
    \/ \E k \in Sockets : SysClientClose(k)
    \/ \E s \in Sockets : SysAccept(s)
    \/ \E s \in Sockets : SysRecv(s)
    \/ \E s \in Sockets : SysServerClose(s)

SpecSys == Init /\ [][NextSys]_vars

(***************************************************************************)
(* SpecSysFair: SpecSys where the browser and the server run every handler *)
(* whose event is pending: a due timer fires, a connection request is      *)
(* accepted and its open event dispatched, and every message written to a  *)
(* socket is read.  Nothing obliges a connection to close.                 *)
(***************************************************************************)
SpecSysFair ==
    /\ SpecSys
    /\ WF_vars(SysTimerFire)
    /\ \A k \in Sockets : WF_vars(SysClientOpen(k))
    /\ \A k \in Sockets : WF_vars(SysClientMessage(k))
    /\ \A s \in Sockets : WF_vars(SysAccept(s))
    /\ \A s \in Sockets : WF_vars(SysRecv(s))

(***************************************************************************)
(* SpecNet: the transport alone.  The client connects, sockets open, start *)
(* closing and close, the reconnect timer fires and the page becomes       *)
(* visible, in any order; no message is read.                              *)
(***************************************************************************)
NextNet ==
    \/ SysBoot
    \/ SysVisibilityChange
    \/ SysTimerFire
    \/ \E k \in Sockets : SysClientOpen(k)
    \/ \E k \in Sockets : SysClientClosing(k)
    \/ \E k \in Sockets : SysClientClose(k)
    \/ \E s \in Sockets : SysAccept(s)

SpecNet == Init /\ [][NextNet]_vars

(***************************************************************************)
(* SpecQueue: the transport with an application that keeps sending.  The   *)
(* n-th message passed to send() carries n in its text, name or color, so  *)
(* that every message is told from every other; its kind follows n.  A    *)
(* listener of 'connected' may send as well.  The server reads nothing, so *)
(* c2s holds everything that was written.  The application stops sending   *)
(* once MaxSends of its messages have been written or dropped; what waits   *)
(* in the queue does not count, so the queue can fill up.                   *)
(***************************************************************************)
MaxSends == 3

Digits == <<"0", "1", "2", "3", "4", "5", "6", "7", "8", "9">>

RECURSIVE Num(_)
Num(n) == IF n < 10 THEN <<Digits[n + 1]>> ELSE Num(n \div 10) \o <<Digits[(n % 10) + 1]>>

HexOf(n) == <<"#", "0", "0", "0", "0", Digits[(n \div 10) + 1], Digits[(n % 10) + 1]>>

\* sendTextResponse, sendColor, sendQuestion, sendJoin in turn
Payload(n) ==
    CASE n % 4 = 1 -> TextMsg(Num(n))
      [] n % 4 = 2 -> ColorMsg(HexOf(n))
      [] n % 4 = 3 -> QuestionMsg(Num(n))
      [] OTHER -> JoinMsg(Num(n), DefaultColorHex)

QueueBudget == serial - Len(queue) < MaxSends

QueueSend ==
    /\ QueueBudget
    /\ cready[1] # "NONE"
    /\ send(Payload(serial + 1))
    /\ serial' = serial + 1
    /\ UNCHANGED <<coreVars, arrivals, cws, cready, connected, reconnectDelay, timer,
                   joined, cname, retries, appVars, dashVars>>

QueueOpen(k) ==
    /\ OpenHandler(k, <<>>)
    /\ UNCHANGED <<coreVars, obsVars, dashVars>>

QueueOpenHeard(k) ==
    /\ QueueBudget
    /\ OpenHandler(k, <<Payload(serial + 1)>>)
    /\ serial' = serial + 1
    /\ UNCHANGED <<coreVars, arrivals, dashVars>>

NextQueue ==
    \/ SysBoot
    \/ SysVisibilityChange
    \/ SysTimerFire
    \/ QueueSend
    \/ \E k \in Sockets : QueueOpen(k)
    \/ \E k \in Sockets : QueueOpenHeard(k)
    \/ \E k \in Sockets : SysClientClosing(k)
    \/ \E k \in Sockets : SysClientClose(k)
    \/ \E s \in Sockets : SysAccept(s)

SpecQueue == Init /\ [][NextQueue]_vars

(***************************************************************************)
(* SpecFeed and SpecColor: the student's application, the server and the   *)
(* facilitator.  The last socket id is the facilitator's connection, which *)
(* sends host_join, mode and host_color; the student's client uses the     *)
(* other ids.  The student joins and, on the screens the mode shows,       *)
(* submits answers and questions (SpecFeed) or taps colors (SpecColor).    *)
(* The connection drops and the reconnect timer restores it; timers fire   *)
(* and messages are delivered in any order.                                *)
(***************************************************************************)
MaxAppSteps == 7

HostSocket == MaxSockets

AppBudget == step < MaxAppSteps

Marked == <<"<", "h", "i">>

FeedHostInputs == {HostJoinMsg(HOST_KEY), ModeMsg("text", HOST_KEY), ModeMsg("qa", HOST_KEY)}
ColorHostInputs == {HostJoinMsg(HOST_KEY), ModeMsg("color", HOST_KEY),
                    HostColorMsg(Green, HOST_KEY)}
TapInputs == {Magenta, DefaultColorHex}
SubmitInputs == {Hi, Marked}

AppTimerFire == NextClientSocket < HostSocket /\ SysTimerFire

AppJoinForm == HandleJoinForm(<<" ", "a", "n", "a">>) /\ UNCHANGED <<coreVars, obsVars, dashVars>>

AppAccept(s) == AppBudget /\ SysAccept(s)

AppRecv(s) == AppBudget /\ SysRecv(s)

AppServerClose(s) == AppBudget /\ s # HostSocket /\ SysServerClose(s)

HostAccept == AppBudget /\ OnConnection(HostSocket) /\ UNCHANGED auxVars

HostSend(m) == AppBudget /\ OnMessage(HostSocket, m) /\ UNCHANGED auxVars

FeedHostSend == \E m \in FeedHostInputs : HostSend(m)

ColorHostSend == \E m \in ColorHostInputs : HostSend(m)

AppColorTap == \E h \in TapInputs : HandleColorTap(h) /\ UNCHANGED <<coreVars, obsVars, dashVars>>

AppTextSubmit == \E v \in SubmitInputs : HandleTextSubmit(v) /\ UNCHANGED <<coreVars, obsVars, dashVars>>

AppQASubmit == \E v \in SubmitInputs : HandleQASubmit(v) /\ UNCHANGED <<coreVars, obsVars, dashVars>>

AppDedupClear == DedupClear /\ UNCHANGED <<coreVars, obsVars, dashVars>>

AppLateSwitch == \E m \in ALLOWED_MODES : LateSwitch(m) /\ UNCHANGED <<coreVars, obsVars, dashVars>>

NextFeed ==
    \/ SysBoot
    \/ AppTimerFire
    \/ AppJoinForm
    \/ AppTextSubmit
    \/ AppQASubmit
    \/ AppDedupClear
    \/ AppLateSwitch
    \/ HostAccept
    \/ FeedHostSend
    \/ \E k \in Sockets : SysClientOpen(k)
    \/ \E k \in Sockets : SysClientMessage(k)
    \/ \E k \in Sockets : SysClientClose(k)
    \/ \E s \in Sockets : AppAccept(s)
    \/ \E s \in Sockets : AppRecv(s)
    \/ \E s \in Sockets : AppServerClose(s)

SpecFeed == Init /\ [][NextFeed]_vars

NextColor ==
    \/ SysBoot
    \/ AppTimerFire
    \/ AppJoinForm
    \/ AppColorTap
    \/ AppLateSwitch
    \/ HostAccept
    \/ ColorHostSend
    \/ Tick
    \/ \E k \in Sockets : SysClientOpen(k)
    \/ \E k \in Sockets : SysClientMessage(k)
    \/ \E k \in Sockets : SysClientClose(k)
    \/ \E s \in Sockets : AppAccept(s)
    \/ \E s \in Sockets : AppRecv(s)
    \/ \E s \in Sockets : AppServerClose(s)

SpecColor == Init /\ [][NextColor]_vars

(***************************************************************************)
(* SpecOffline: the student's application across a lost connection.  The   *)
(* facilitator opens the text mode; the student joins, submits an answer,  *)
(* possibly while the transport is down, and the transport reconnects.     *)
(* The server reads whatever the client has written.                       *)
(***************************************************************************)
OfflineHostInputs == {HostJoinMsg(HOST_KEY), ModeMsg("text", HOST_KEY)}

OfflineHostSend == \E m \in OfflineHostInputs : HostSend(m)

NextOffline ==
    \/ SysBoot
    \/ AppTimerFire
    \/ AppJoinForm
    \/ AppTextSubmit
    \/ AppLateSwitch
    \/ HostAccept
    \/ OfflineHostSend
    \/ \E k \in Sockets : SysClientOpen(k)
    \/ \E k \in Sockets : SysClientMessage(k)
    \/ \E k \in Sockets : SysClientClose(k)
    \/ \E s \in Sockets : AppAccept(s)
    \/ \E s \in Sockets : SysRecv(s)
    \/ \E s \in Sockets : AppServerClose(s)

SpecOffline == Init /\ [][NextOffline]_vars

(***************************************************************************)
(* SpecDash: the dashboard and the server.  Students join, submit, and     *)
(* leave on connections of their own; the dashboard connects, announces    *)
(* itself, reads what the server writes to it, loses its connection and    *)
(* connects again.                                                         *)
(***************************************************************************)
DashStudentInputs == {JoinMsg(Ana, Green), QuestionMsg(Hi), TextMsg(Hi)}

\* the dashboard's transport opens a connection and the server accepts it
DashConnect(s) ==
    /\ AppBudget
    /\ hws = 0
    /\ s = NextSocket
    /\ OnConnection(s)
    /\ hws' = s
    /\ UNCHANGED <<hquestions, htextResponses, hstudents, obsVars, cliVars>>

\* the 'connected' listener: ws.send({type: 'host_join', key})
DashAnnounce ==
    /\ AppBudget
    /\ hws # 0 /\ Has(hws) /\ ~Get(hws).isHost
    /\ OnMessage(hws, HostJoinMsg(HOST_KEY))
    /\ UNCHANGED auxVars

\* the dashboard's connection is lost; what it has not read is lost with it
DashDrop ==
    /\ AppBudget
    /\ hws # 0
    /\ OnClose(hws)
    /\ hws' = 0
    /\ UNCHANGED <<hquestions, htextResponses, hstudents, obsVars, cliVars>>

DashStudentAccept(s) ==
    /\ AppBudget
    /\ s = NextSocket
    /\ s < MaxSockets
    /\ OnConnection(s)
    /\ UNCHANGED auxVars

DashStudentSend(s) ==
    /\ AppBudget
    /\ s # hws
    /\ \E m \in DashStudentInputs : OnMessage(s, m)
    /\ UNCHANGED auxVars

DashStudentClose(s) ==
    /\ AppBudget
    /\ s # hws
    /\ OnClose(s)
    /\ UNCHANGED auxVars

NextDash ==
    \/ DashMessage
    \/ DashAnnounce
    \/ DashDrop
    \/ \E s \in Sockets : DashConnect(s)
    \/ \E s \in Sockets : DashStudentAccept(s)
    \/ \E s \in Sockets : DashStudentSend(s)
    \/ \E s \in Sockets : DashStudentClose(s)

SpecDash == Init /\ [][NextDash]_vars

(***************************************************************************)
(* Vocabulary of the properties                                            *)
(***************************************************************************)
\* the step is a handler run of a message of this type that changed something
Eff(type) == srvVars' # srvVars /\ last'.msg.type = type

RecordOf(cl, s) == cl[CHOOSE i \in 1..Len(cl) : cl[i].sock = s]
InMap(cl, s) == \E i \in 1..Len(cl) : cl[i].sock = s

\* exactly '#' and six hexadecimal digits
ExactHex(v) ==
    /\ v.str
    /\ Len(v.chars) = 7
    /\ v.chars[1] = "#"
    /\ \A i \in 2..7 : v.chars[i] \in HexDigits

\* the same, once surrounding whitespace is removed
TrimmedHex(v) == v.str /\ ExactHex(Str(Trim(v.chars)))

(***************************************************************************)
(* C1: every color action the server accepts raises totalColorChanges by   *)
(* exactly one and the sender's colorsSent by exactly one in the same      *)
(* step, and totalColorChanges never decreases.                            *)
(***************************************************************************)
C1_CountersStep ==
    [][/\ totalColorChanges' >= totalColorChanges
       /\ Eff("color") =>
            /\ totalColorChanges' = totalColorChanges + 1
            /\ RecordOf(clients', last'.sock).colorsSent
                 = RecordOf(clients, last'.sock).colorsSent + 1]_vars

C1_Witness ==
    /\ last.msg.type = "color"
    /\ totalColorChanges = 2
    /\ Has(last.sock) /\ Get(last.sock).colorsSent = 2

Pairs == {p \in (1..Len(arrivals)) \X (1..Len(arrivals)) :
             p[1] < p[2] /\ arrivals[p[1]].sock = arrivals[p[2]].sock}

Gap(p) == arrivals[p[2]].at - arrivals[p[1]].at

C3_AnyTwo ==
    \A p \in Pairs :
        IF Gap(p) < COLOR_RATE_MS
        THEN arrivals[p[1]].ok # arrivals[p[2]].ok
        ELSE arrivals[p[1]].ok /\ arrivals[p[2]].ok

C3_SinceLastAccepted ==
    /\ \A j \in 1..Len(arrivals) :
          arrivals[j].ok <=>
             \A p \in Pairs : (p[2] = j /\ arrivals[p[1]].ok) => Gap(p) >= COLOR_RATE_MS
    /\ \A p \in Pairs :
          /\ Gap(p) < COLOR_RATE_MS => ~(arrivals[p[1]].ok /\ arrivals[p[2]].ok)
          /\ (Gap(p) < COLOR_RATE_MS /\ arrivals[p[1]].ok) => ~arrivals[p[2]].ok
          /\ (arrivals[p[1]].ok /\ arrivals[p[2]].ok) => Gap(p) >= COLOR_RATE_MS

C3_Witness ==
    \E i, j, k \in 1..Len(arrivals) :
        /\ <<i, j>> \in Pairs /\ <<j, k>> \in Pairs
        /\ arrivals[i].ok /\ ~arrivals[j].ok /\ arrivals[k].ok
        /\ Gap(<<i, j>>) > 0 /\ Gap(<<i, j>>) < COLOR_RATE_MS
        /\ Gap(<<i, k>>) = COLOR_RATE_MS

(***************************************************************************)
(* C4: the mode changes only through a mode message, and a mode or         *)
(* host_color message has an effect only when its key is the configured    *)
(* secret and its connection is already the facilitator.                   *)
(***************************************************************************)
C4_Privilege ==
    [][/\ mode' # mode => Eff("mode")
       /\ (Eff("mode") \/ Eff("host_color")) =>
            /\ last'.msg.key = HOST_KEY
            /\ RecordOf(clients, last'.sock).isHost]_vars

C4_Witness ==
    /\ last.msg.type = "mode"
    /\ mode = "ambient"
    /\ \E s \in Sockets : Has(s) /\ ready[s] = "OPEN" /\ ~Get(s).isHost

C6_ExactOnly ==
    [][(Eff("color") \/ Eff("host_color")) => ExactHex(last'.msg.hex)]_vars

C6_TrimmedOnly ==
    [][/\ (Eff("color") \/ Eff("host_color")) => TrimmedHex(last'.msg.hex)
       /\ (roomColorHex' # roomColorHex \/ wiz' # wiz
             \/ totalColorChanges' # totalColorChanges)
            => (Eff("color") \/ Eff("host_color"))]_vars

C6_Witness ==
    /\ last.msg.type = "color"
    /\ ~ExactHex(last.msg.hex)
    /\ roomColorHex = Green
    /\ wiz = <<Green>>

(***************************************************************************)
(* C7: each history holds exactly the min(n, 200) most recent of the n     *)
(* accepted submissions, in their order.  The accepted submissions are     *)
(* read off the events the server wrote to the submitting connection.      *)
(***************************************************************************)
Submitted(kind) ==
    LET ev == SelectSeq(s2c[1], LAMBDA e : e.type = kind)
    IN  [i \in 1..Len(ev) |-> [name |-> ev[i].name, text |-> ev[i].text, hex |-> ev[i].hex]]

C7_MostRecent ==
    /\ Len(textResponses) <= HistoryCap
    /\ Len(questions) <= HistoryCap
    /\ textResponses = LastN(Submitted("text_response"), HistoryCap)
    /\ questions = LastN(Submitted("question"), HistoryCap)

C7_Witness ==
    /\ Len(Submitted("text_response")) = HistoryCap + 5
    /\ Len(textResponses) = HistoryCap
    /\ textResponses[1] = Submitted("text_response")[6]
    /\ textResponses[1] # Submitted("text_response")[1]

(***************************************************************************)
(* C8: the roster of the welcome a reconnecting client receives.           *)
(* C8_ExactlyOnce is the claim as stated: a client that has joined on an   *)
(* earlier connection finds its name exactly once in the roster of the     *)
(* welcome it handles on a later connection.                               *)
(* C8_RosterAtAccept is what the server sends: the roster of the welcome   *)
(* lists the connections registered when the new connection is accepted,   *)
(* so it never lists the new connection, and it holds the client's name    *)
(* once for each of the client's earlier connections that the server has   *)
(* not yet seen close.                                                     *)
(***************************************************************************)
NameCount(roster, name) == Cardinality({i \in 1..Len(roster) : roster[i].name = name})

Registered(cl) == SelectSeq(cl, LAMBDA c : c.name # Null /\ ~c.isHost)

WelcomeInFlight(k) == s2c[k] # <<>> /\ Head(s2c[k]).type = "welcome"

C9_RejoinOnWelcome ==
    [][\A k \in Sockets :
          (/\ joined /\ cname # Null
           /\ WelcomeInFlight(k)
           /\ s2c'[k] = Tail(s2c[k])
           /\ cready[k] = "OPEN" /\ ready[k] = "OPEN")
          => joinsSent'[k] = joinsSent[k] + 1]_vars

(***************************************************************************)
(* C10: every connection is written the server's events in the order in    *)
(* which the server handled the actions that caused them.                  *)
(***************************************************************************)
C10_ProcessingOrder ==
    \A s \in Sockets : \A i, j \in 1..Len(s2c[s]) :
        i < j => s2c[s][i].seq <= s2c[s][j].seq

C10_Witness ==
    \E s \in Sockets : \E i, j \in 1..Len(s2c[s]) :
        /\ i < j
        /\ s2c[s][i].type = "join"
        /\ s2c[s][j].type = "mode"
        /\ Has(s) /\ Get(s).isHost

(***************************************************************************)
(* C11: a connection that is anonymous or the facilitator is never in the  *)
(* roster of a welcome and never counted in the count of a joined, join or *)
(* leave event, also after the facilitator has sent join or a participant  *)
(* has sent a valid host_join.                                             *)
(***************************************************************************)
Role(c) ==
    IF c.isHost THEN "facilitator"
    ELSE IF c.name # Null THEN "participant" ELSE "anonymous"

Participants(cl) == {i \in 1..Len(cl) : Role(cl[i]) = "participant"}

\* positions of the messages this step wrote to socket s
Written(s) == (Len(s2c[s]) + 1)..Len(s2c'[s])

C11_ParticipantsOnly ==
    [][\A s \in Sockets : \A i \in Written(s) :
          LET e == s2c'[s][i] IN
            /\ e.type \in {"joined", "join", "leave"} =>
                  e.count = Cardinality(Participants(clients'))
            /\ e.type = "welcome" =>
                  /\ Len(e.students) = Cardinality(Participants(clients'))
                  /\ \A j \in 1..Len(e.students) :
                        \E c \in Participants(clients') :
                           clients'[c].name = e.students[j].name]_vars

C11_Witness ==
    \E s \in Sockets :
        /\ Has(s) /\ Get(s).isHost /\ Get(s).name = Ana
        /\ s2c[s] # <<>>
        /\ s2c[s][Len(s2c[s])].type = "join"
        /\ s2c[s][Len(s2c[s])].count = 0

(***************************************************************************)
(* C12: the count of every welcome is the number of participants at that   *)
(* moment, which is the length of the roster of the same welcome.          *)
(***************************************************************************)
C12_WelcomeCount ==
    \A s \in Sockets : \A i \in 1..Len(s2c[s]) :
        s2c[s][i].type = "welcome" => s2c[s][i].count = Len(s2c[s][i].students)

(***************************************************************************)
(* C13: a color, reaction, text_response or question message of an         *)
(* anonymous connection changes nothing and makes the server write         *)
(* nothing: such a message has an effect only if its sender is not         *)
(* anonymous.                                                              *)
(***************************************************************************)
ParticipantKinds == {"color", "reaction", "text_response", "question"}

C14_LeaveOnClose ==
    [][/\ \A s \in Sockets :
             (ready[s] = "CLOSED" /\ ~InMap(clients, s)) => ~InMap(clients', s)
       /\ (Eff("close") /\ Role(RecordOf(clients, last'.sock)) = "participant") =>
             LET s == last'.sock
                 name == RecordOf(clients, s).name
             IN  /\ ~InMap(clients', s)
                 /\ Len(clients') = Len(clients) - 1
                 /\ \A t \in Sockets :
                       IF t # s /\ InMap(clients, t) /\ ready[t] = "OPEN"
                       THEN /\ Len(s2c'[t]) = Len(s2c[t]) + 1
                            /\ SubSeq(s2c'[t], 1, Len(s2c[t])) = s2c[t]
                            /\ s2c'[t][Len(s2c'[t])].type = "leave"
                            /\ s2c'[t][Len(s2c'[t])].name = name
                            /\ s2c'[t][Len(s2c'[t])].count
                                 = Cardinality(Participants(clients'))
                       ELSE s2c'[t] = s2c[t]]_vars

C14_Witness ==
    /\ last.msg.type = "close"
    /\ ~Has(last.sock)
    /\ \E t \in Sockets :
          /\ Has(t) /\ Role(Get(t)) = "participant"
          /\ s2c[t][Len(s2c[t])].type = "leave"
          /\ s2c[t][Len(s2c[t])].name = Ana
          /\ s2c[t][Len(s2c[t])].count = 1

(***************************************************************************)
(* C15: the server accepts at most one text submission per 8 s and at most *)
(* one question per 5 s from one connection.  C15_OnePerWindow: as long as *)
(* less than 5 s have passed since the server started, it has stored at    *)
(* most one answer and one question for each connection it has accepted.   *)
(***************************************************************************)
Accepted == {s \in Sockets : ready[s] # "NEW"}

C15_OnePerWindow ==
    (now - StartTime < CLIENT_QUESTION_RATE_MS /\ now - StartTime < CLIENT_TEXT_RATE_MS) =>
        /\ Len(textResponses) <= Cardinality(Accepted)
        /\ Len(questions) <= Cardinality(Accepted)

(***************************************************************************)
(* C16: the server stores a count per reaction symbol and every welcome    *)
(* carries the counts.  C16_CountsInWelcome: a connection accepted right   *)
(* after a participant's accepted reaction is sent a welcome with a        *)
(* reactionCounts field in which that symbol's count is at least one.      *)
(***************************************************************************)
C16_CountsInWelcome ==
    [][\A s \in Sockets :
          (/\ ready[s] = "NEW" /\ ready'[s] = "OPEN"
           /\ last.msg.type = "reaction"
           /\ InMap(clients, last.sock)
           /\ Role(RecordOf(clients, last.sock)) = "participant") =>
             LET w == s2c'[s][Len(s2c'[s])] IN
               /\ "reactionCounts" \in DOMAIN w
               /\ w.reactionCounts[last.msg.emoji] >= 1]_vars

(***************************************************************************)
(* C17: the transport never has two sockets that are connecting or open at *)
(* the same time, and the close event of a socket other than the current   *)
(* one leaves the reference to the current socket and the connected flag   *)
(* as they are.                                                            *)
(***************************************************************************)
Live == {k \in Sockets : cready[k] \in {"CONNECTING", "OPEN"}}

CloseOf(k) == cready[k] # "CLOSED" /\ cready'[k] = "CLOSED"

C17_SingleSocket ==
    [][/\ Cardinality(Live') <= 1
       /\ \A k \in Sockets :
             (CloseOf(k) /\ cws # 0 /\ cws # k) =>
                 (cws' = cws /\ connected' = connected)]_vars

(***************************************************************************)
(* C18: the k-th retry scheduled since the last successful open has the    *)
(* delay min(500 * 2^(k-1), 30000), and the stored delay stays within      *)
(* [500, 30000].                                                           *)
(***************************************************************************)
RECURSIVE Backoff(_)
Backoff(k) ==
    IF k = 1 THEN RECONNECT_BASE_MS
    ELSE LET d == Backoff(k - 1) * RECONNECT_MULTIPLIER
         IN  IF d < RECONNECT_MAX_MS THEN d ELSE RECONNECT_MAX_MS

C18_BackoffSchedule ==
    /\ reconnectDelay >= RECONNECT_BASE_MS
    /\ reconnectDelay <= RECONNECT_MAX_MS
    /\ \A k \in 1..Len(retries) : retries[k] = Backoff(k)

(***************************************************************************)
(* C19: while the client is connected the stored reconnect delay is the    *)
(* base delay, so the first retry after the next close is scheduled with   *)
(* the base delay.                                                         *)
(***************************************************************************)
C19_BaseWhileConnected ==
    /\ connected => reconnectDelay = RECONNECT_BASE_MS
    /\ Len(retries) >= 1 => retries[1] = RECONNECT_BASE_MS

(***************************************************************************)
(* C20: a connect() that creates a socket cancels the pending reconnect    *)
(* timer, so a retry is never pending while a socket is connecting or      *)
(* open, and the timer callback never runs while the client is connecting  *)
(* or connected.                                                           *)
(***************************************************************************)
C20_TimerCancelled ==
    [][/\ (timer /\ ~timer') => (Live = {} /\ ~connected)
       /\ (cws' # cws /\ cws' # 0) => ~timer'
       /\ ~(timer' /\ Live' # {})]_vars


(***************************************************************************)
(* C28: the role of a connection changes only out of the anonymous state:  *)
(* a join or host_join message has an effect (a record changed, a reply    *)
(* or a broadcast written) only on a connection that was anonymous.        *)
(***************************************************************************)
C28_OnlyFromAnonymous ==
    [][\A kind \in {"join", "host_join"} :
          Eff(kind) => Role(RecordOf(clients, last'.sock)) = "anonymous"]_vars

(***************************************************************************)
(* C29: a color, reaction, text_response or question message has an        *)
(* effect (session state changed or a broadcast written) only when its     *)
(* sender is in the participant role; on the facilitator's connection it   *)
(* has none.                                                               *)
(***************************************************************************)
C29_ParticipantsActOnly ==
    [][\A kind \in ParticipantKinds :
          Eff(kind) => Role(RecordOf(clients, last'.sock)) = "participant"]_vars

(***************************************************************************)
(* C30: an accepted host_color message increases totalColorChanges by      *)
(* exactly one, as an accepted color message does, so that the counter     *)
(* follows the number of color events broadcast.                           *)
(***************************************************************************)
C30_HostColorCounted ==
    [][Eff("host_color") => totalColorChanges' = totalColorChanges + 1]_vars

(***************************************************************************)
(* C21: the outbound queue never holds more than 20 messages: a send()     *)
(* that finds the queue full leaves it as it is, and no flush or put-back  *)
(* raises its length above 20.                                             *)
(***************************************************************************)
InSeq(m, seq) == \E i \in 1..Len(seq) : seq[i] = m

Opens == \E k \in Sockets : cready[k] = "CONNECTING" /\ cready'[k] = "OPEN"

\* the step is a send() of the application outside the open listener
Sends == serial' = serial + 1 /\ ~Opens

C21_QueueBounded ==
    [][/\ Len(queue') <= QueueCap
       /\ (Sends /\ Len(queue) = QueueCap) => queue' = queue
       /\ (Sends /\ Len(queue) < QueueCap /\ c2s' = c2s) =>
             queue' = Append(queue, Payload(serial'))]_vars

C21_Witness ==
    /\ Len(queue) = QueueCap
    /\ serial > QueueCap
    /\ ~InSeq(Payload(serial), queue)

(***************************************************************************)
(* C22: no color or join message that waited in the queue is ever written  *)
(* to a socket: whatever a step writes that was queued before the step is  *)
(* of another kind, and after an open no queued message of these two kinds *)
(* is left.                                                                *)
(***************************************************************************)
Stale(m) == m.type \in {"color", "join"}

WrittenTo(s) == {c2s'[s][i] : i \in (Len(c2s[s]) + 1)..Len(c2s'[s])}

C22_StaleNeverWritten ==
    [][/\ \A s \in Sockets : \A m \in WrittenTo(s) : InSeq(m, queue) => ~Stale(m)
       /\ Opens => \A i \in 1..Len(queue') :
                      InSeq(queue'[i], queue) => ~Stale(queue'[i])]_vars

C22_Witness ==
    /\ serial >= 3
    /\ queue = <<>>
    /\ \E s \in Sockets : c2s[s] = <<Payload(1), Payload(3)>>
    /\ \A s \in Sockets : ~InSeq(Payload(2), c2s[s])

(***************************************************************************)
(* C23: what the client writes to the wire is in the order of the send()   *)
(* calls: of two written messages the one passed to send() first was       *)
(* written first, also when the later one was sent by a listener of        *)
(* 'connected'.                                                            *)
(***************************************************************************)
\* the sockets are created in the order of their numbers and every write
\* goes to #ws, so the wire is the writes of socket 1, then of socket 2, ...
RECURSIVE WireUpTo(_)
WireUpTo(n) == IF n = 0 THEN <<>> ELSE WireUpTo(n - 1) \o c2s[n]

Wire == WireUpTo(MaxSockets)

SerialOf(m) == CHOOSE n \in 1..serial : Payload(n) = m

C23_SendOrder ==
    \A i, j \in 1..Len(Wire) : i < j => SerialOf(Wire[i]) < SerialOf(Wire[j])

(***************************************************************************)
(* C24: every message passed to send() is written at most once, and it is  *)
(* written, or still queued, or was dropped by the overflow rule or the    *)
(* staleness filter: a message leaves the queue only by being written or   *)
(* by being a color or join, and a message that send() neither writes nor  *)
(* queues met a full queue.                                                *)
(***************************************************************************)
C24_OnceOrDropped ==
    [][/\ \A i, j \in 1..Len(Wire') : Wire'[i] = Wire'[j] => i = j
       /\ \A i \in 1..Len(queue') : ~InSeq(queue'[i], Wire')
       /\ \A i \in 1..Len(queue) :
             \/ InSeq(queue[i], queue')
             \/ InSeq(queue[i], Wire')
             \/ Stale(queue[i])
       /\ serial' = serial + 1 =>
             \/ InSeq(Payload(serial'), Wire')
             \/ InSeq(Payload(serial'), queue')
             \/ Len(queue') = QueueCap]_vars

\* 1 was written to socket 1; 2, 3 and 4 were queued; the open of socket 2
\* dropped 2 and 4 and wrote 3
C24_Witness ==
    /\ queue = <<>>
    /\ c2s[1] = <<Payload(1)>>
    /\ c2s[2] = <<Payload(3), Payload(5)>>

(***************************************************************************)
(* C25: after the client has processed a welcome, its text feed and its    *)
(* question feed hold exactly the entries of the arrays of that welcome,   *)
(* in the same order, whatever they held before.                           *)
(***************************************************************************)
\* the step is the client's handler of a message of this type read from socket k
Handles(k, type) ==
    /\ cready[k] \in {"OPEN", "CLOSING"}
    /\ s2c[k] # <<>>
    /\ Head(s2c[k]).type = type
    /\ s2c'[k] = Tail(s2c[k])

C25_WelcomeReplaces ==
    [][\A k \in Sockets :
          Handles(k, "welcome") =>
             /\ textFeed' = Head(s2c[k]).textResponses
             /\ qaFeed' = Head(s2c[k]).questions]_vars

\* the answer "<hi" was submitted and shown; the feed now holds only the
\* entry "hi" the server stored, so a welcome has replaced it
C25_Witness ==
    /\ DedupKey(Ana, Marked) \in selfSentTexts
    /\ textFeed = <<FeedItem(Ana, Hi, DefaultColorHex)>>

(***************************************************************************)
(* C26: an answer or question the joined student submitted is in the       *)
(* student's own feed exactly once when its echo has been delivered: the   *)
(* server has stored it, the client is connected and nothing is queued or  *)
(* in flight between the two.                                              *)
(***************************************************************************)
\* the client is connected, the server holds its connection open and nothing
\* is waiting on either side
Settled ==
    /\ connected /\ cws # 0 /\ cready[cws] = "OPEN" /\ ready[cws] = "OPEN"
    /\ queue = <<>>
    /\ \A s \in Sockets : c2s[s] = <<>>
    /\ \A s \in Sockets : cready[s] \in {"OPEN", "CLOSING"} => s2c[s] = <<>>

C26_OwnEntryOnce ==
    Settled =>
       /\ (lastTextSentAt # 0 /\ textResponses # <<>>) => Len(textFeed) = 1
       /\ (lastQuestionSentAt # 0 /\ questions # <<>>) => Len(qaFeed) = 1

(***************************************************************************)
(* C27: whenever the client is connected and no message is queued or in    *)
(* flight, the room color the client shows is the room color of the        *)
(* server.                                                                 *)
(***************************************************************************)
C27_RoomColorAgrees == Settled => croom = roomColorHex

(***************************************************************************)
(* C31: an accepted mode message that sets the demo mode appends the mode  *)
(* event and then one demo_start event, in that order and nothing else, to *)
(* every open connection; no other step (an accepted mode message for      *)
(* another mode, a rejected one, any other event) writes a demo_start.     *)
(***************************************************************************)
C31_DemoStartAfterDemoMode ==
    [][IF Eff("mode") /\ mode' = "demo"
       THEN \A t \in Sockets :
              IF InMap(clients, t) /\ ready[t] = "OPEN"
              THEN /\ Len(s2c'[t]) = Len(s2c[t]) + 2
                   /\ SubSeq(s2c'[t], 1, Len(s2c[t])) = s2c[t]
                   /\ s2c'[t][Len(s2c[t]) + 1].type = "mode"
                   /\ s2c'[t][Len(s2c[t]) + 1].mode = "demo"
                   /\ s2c'[t][Len(s2c[t]) + 2].type = "demo_start"
              ELSE s2c'[t] = s2c[t]
       ELSE \A t \in Sockets : \A i \in Written(t) :
              s2c'[t][i].type # "demo_start"]_vars

C31_Witness ==
    /\ last.msg.type = "mode"
    /\ mode = "demo"
    /\ \E t \in Sockets :
          /\ t # last.sock /\ Has(t)
          /\ Len(s2c[t]) >= 3
          /\ s2c[t][Len(s2c[t]) - 1].type = "mode"
          /\ s2c[t][Len(s2c[t])].type = "demo_start"

(***************************************************************************)
(* C32: a color action the server drops (its sender has not joined, its    *)
(* value is invalid, or it arrives inside the rate window) changes nothing *)
(* on the server: no connection's record, lastColorAt included, no session *)
(* state, nothing written.  So dropped actions never extend the window: a  *)
(* valid action of a joined connection is accepted whenever every earlier  *)
(* accepted action of that connection is at least 300 ms old, whatever was *)
(* dropped in between, and an accepted one restarts the window.            *)
(***************************************************************************)
C32_DroppedLeavesNoTrace ==
    [][Len(arrivals') = Len(arrivals) + 1 =>
         LET a == arrivals'[Len(arrivals')]
             earlier == {i \in 1..Len(arrivals) :
                            arrivals[i].sock = a.sock /\ arrivals[i].ok}
         IN  /\ ~a.ok => srvVars' = srvVars
             /\ a.ok => RecordOf(clients', a.sock).lastColorAt = now
             /\ a.ok <=> /\ a.named
                         /\ a.valid
                         /\ \A i \in earlier : a.at - arrivals[i].at >= COLOR_RATE_MS]_vars

C32_Witness ==
    /\ Len(arrivals) = 3
    /\ \A i \in 1..3 : arrivals[i].sock = arrivals[1].sock /\ arrivals[i].valid
    /\ arrivals[1].ok /\ ~arrivals[2].ok /\ arrivals[3].ok
    /\ arrivals[2].at = arrivals[1].at + 2 * FineTickMs
    /\ arrivals[3].at = arrivals[1].at + COLOR_RATE_MS

(***************************************************************************)
(* C33: sendToWiz is called exactly once, with the new shared color, in    *)
(* every step in which a color or host_color message takes effect, and in  *)
(* no other step; the shared color changes in no other step either, so the *)
(* colors handed to the sink are, in order, the values the shared color    *)
(* has been given.                                                         *)
(***************************************************************************)
C33_SinkFollowsRoomColor ==
    [][IF Eff("color") \/ Eff("host_color")
       THEN wiz' = Append(wiz, roomColorHex')
       ELSE wiz' = wiz /\ roomColorHex' = roomColorHex]_vars

C33_Witness ==
    /\ Len(wiz) = 2
    /\ wiz[1] # wiz[2]
    /\ wiz[2] = roomColorHex
    /\ last.msg.type = "host_color"
    /\ totalColorChanges = 1

(***************************************************************************)
(* C34: a leave event is written only when the connection that closed held *)
(* a participant identity: a step that writes a leave event to any socket  *)
(* is the close of a connection in the participant role, so the close of   *)
(* an anonymous connection or of the facilitator's writes none.            *)
(***************************************************************************)
C34_LeaveOnlyForParticipants ==
    [][(\E t \in Sockets : \E i \in Written(t) : s2c'[t][i].type = "leave") =>
          /\ last'.msg.type = "close"
          /\ Role(RecordOf(clients, last'.sock)) = "participant"]_vars

(***************************************************************************)
(* C40: a name the sanitizer lets through is non-empty, has no leading or  *)
(* trailing whitespace, contains neither < nor > and is at most 100        *)
(* characters long; so no participant is registered under an empty or      *)
(* whitespace-only name.                                                   *)
(***************************************************************************)
C40_RegisteredNamesClean ==
    \A i \in 1..Len(clients) :
        LET name == clients[i].name
        IN  name # Null =>
              /\ Len(name) <= NameMaxLen
              /\ Head(name) \notin WhiteSpace
              /\ name[Len(name)] \notin WhiteSpace
              /\ \A k \in 1..Len(name) : name[k] \notin {"<", ">"}

(***************************************************************************)
(* C36: whenever the student's client is connected and no message is       *)
(* queued or in flight in either direction, its state.totalColorChanges    *)
(* equals the server's appState.totalColorChanges.                         *)
(***************************************************************************)
C36_TotalAgrees == Settled => ctotal = totalColorChanges

(***************************************************************************)
(* C37: whenever the student's client is connected and has joined, no      *)
(* message is queued or in flight in either direction and no timer of the  *)
(* client is pending (reconnect, delayed mode switch, dedup clear), its    *)
(* state.mode equals the server's appState.mode.                           *)
(***************************************************************************)
NoTimerPending == ~timer /\ switchTimers = {} /\ clearTimers = 0

C37_ModeAgrees == (Settled /\ joined /\ NoTimerPending) => cmode = mode

(***************************************************************************)
(* C38: an answer or question of a joined client is accepted by the server *)
(* whatever connection it travels on: whenever the server reads a          *)
(* text_response or question message the joined client wrote, the message  *)
(* takes effect (it is stored and broadcast), because on a new connection  *)
(* the re-sent join is read before any flushed message.                    *)
(***************************************************************************)
C38_QueuedActionAccepted ==
    [][\A s \in Sockets :
          (/\ c2s[s] # <<>>
           /\ c2s'[s] = Tail(c2s[s])
           /\ Head(c2s[s]).type \in {"text_response", "question"}
           /\ joined) =>
             /\ srvVars' # srvVars
             /\ last' = [sock |-> s, msg |-> Head(c2s[s])]]_vars

(***************************************************************************)
(* C39: when the join form was submitted with a valid name, every          *)
(* connection the transport has open afterwards leads to the client being  *)
(* joined (it has read the server's joined message, which the server sends *)
(* when it registers the name) unless that connection is lost first; no    *)
(* further submission is needed.                                           *)
(***************************************************************************)
Established == connected /\ cws # 0 /\ cready[cws] = "OPEN" /\ ready[cws] = "OPEN"

C39_JoinEventuallyConfirmed == (cname # Null /\ Established) ~> (joined \/ ~Established)

(***************************************************************************)
(* C35: after the dashboard has handled a welcome, on the first connection *)
(* and on every later one, its question list and its answer list hold the  *)
(* entries of the welcome, once each and in the same order, and its roster *)
(* holds exactly the students of the welcome.                              *)
(***************************************************************************)
C35_DashboardReplaces ==
    [][(/\ hws # 0
        /\ s2c[hws] # <<>>
        /\ Head(s2c[hws]).type = "welcome"
        /\ s2c'[hws] = Tail(s2c[hws])) =>
          LET data == Head(s2c[hws])
          IN  /\ hquestions' = data.questions
              /\ htextResponses' = data.textResponses
              /\ hstudents' = NamesOf(data.students)]_vars
=============================================================================
